---- MODULE Spec2Model ----
(***************************************************************************)
(* Model of wavesplatform/state-service.                                   *)
(*                                                                         *)
(*   - the ingestion reconciler: data_entries/daemon.rs (the loop),        *)
(*     data_entries/repo.rs (the store statements)                         *)
(*   - the point-in-time request path: api/historical.rs,                  *)
(*     data_entries.rs (Repo::find_entities_uids, Repo::mget_data_entries) *)
(*                                                                         *)
(* Every store statement of the reconciler runs on its own pooled          *)
(* connection and commits on its own, so each is one step of the model.    *)
(***************************************************************************)
EXTENDS Integers, Sequences, FiniteSets, TLC

(***************************************************************************)
(* Bounds                                                                  *)
(***************************************************************************)
\* highest block height the upstream chain has reached
MaxHeight == 3
\* longest list of append events one fetched range carries
MaxInserts == 1
\* longest list of removal events one fetched range carries
MaxDeletes == 1
\* largest configured blocks_per_request
MaxBlocksPerRequest == 2
\* largest configured starting height (min_height)
MaxMinHeight == 1

\* longest raw text of the height query parameter
MaxRawLen == 1
\* longest address_key_pairs list of a request
MaxEntries == 2
\* latest whole second a requested block_timestamp names
MaxSecs == 2
\* clock ticks per second (timestamps carry sub-second precision)
TicksPerSecond == 2

\* most fragments a generated compound key is made of
MaxFragments == 12
\* longest key drawn freely from the key alphabet
MaxKeyLen == 2
\* most data entries the served block carries
MaxBlockEntries == 1

\* most blocks the upstream holds when the loop runs to completion
MaxChainLen == 3

\* longest text handed to pg_escape on its own
MaxTextLen == 2
\* longest string literal of a filter leaf
MaxLitLen == 2
\* most children of an And / Or node
MaxChildren == 2
\* deepest nesting of And / Or nodes
MaxDepth == 2
\* most properties, and most rows, of an In filter
MaxInSize == 2
\* most items of a sort list
MaxSortItems == 2

\* most members of a filter object, and most elements of an and / or array
MaxMembers == 2
MaxItems == 2

\* most current rows of the store a page is cut from
MaxPageRows == 3
\* largest limit, and largest offset, of a paged request
MaxPageLimit == 3
MaxPageOffset == 4

Addresses == {"a1"}
Keys == {"k1", "k2"}
Values == {"v1", "v2"}

\* daemon.rs:87  Duration::from_secs(5)
BACKOFF_SECS == 5

VARIABLES
    \* ---- reconciler configuration (daemon.rs:19-20) ----
    min_height,
    blocks_per_request,
    \* ---- the store (schema.rs) ----
    last_handled_height,    \* table last_handled_height
    data_entries,           \* table data_entries, primary key (address, key)
    \* ---- reconciler locals and position (daemon.rs:22-89) ----
    pc,
    lhh_read,               \* local last_handled_height (daemon.rs:23)
    from_height,
    to_height,
    updates,                \* <<to_insert, to_delete>>
    fetch_failed,           \* the last fetch_updates call returned Err
    store_error,            \* the call or operation that panicked, or "none"
    slept,                  \* seconds slept right before the current loop head
    \* ---- point-in-time request path ----
    de_versions,            \* versioned data_entries rows (data_entries.rs:82-97)
    history_keys,           \* table data_entries_history_keys
    query,                  \* raw query-string parameters of the request
    entries,                \* MgetEntries.address_key_pairs of the request
    hp,                     \* Result<HistoricalRequestParams, Rejection>
    uids,                   \* result of find_entities_uids
    history_reads,          \* statements run against data_entries_history_keys
    rows,                   \* rows the request returned
    response,               \* MgetResponse: one Option<DataEntry> per pair
    outcome,                \* what the request ended in
    qpc,
    \* ---- the upstream chain the codec reads ----
    chain,                  \* the block updates the upstream serves, by height
    \* ---- the SQL compiler (api/sql.rs, text_utils.rs) ----
    text,                   \* the argument of pg_escape
    escaped,                \* its result
    filter,                 \* Option<RequestFilter>
    where_sql,              \* the rendered SqlWhere
    sort,                   \* RequestSort
    sort_sql,               \* the rendered SqlSort
    cpc,
    \* ---- the filter parser (api/parsing.rs) ----
    raw_filter,             \* the JSON value handed to parse_filter
    node,                   \* Result<Node, AppError>
    \* ---- the search route (api/mod.rs:93-135) ----
    req,                    \* the deserialized SearchRequest
    validation,             \* result of req.is_valid()
    searched,               \* the calls of search_data_entries made, in order
    found,                  \* the rows the last call returned
    page,                   \* DataEntriesResponse
    spc

daemon_vars == <<min_height, blocks_per_request, last_handled_height,
                 data_entries, pc, lhh_read, from_height, to_height, updates,
                 fetch_failed, store_error, slept>>
query_vars == <<de_versions, history_keys, query, entries, hp, uids,
                history_reads, rows, response, outcome, qpc>>
codec_vars == <<chain>>
compile_vars == <<text, escaped, filter, where_sql, sort, sort_sql, cpc,
                  raw_filter, node>>
search_vars == <<req, validation, searched, found, page, spc>>
vars == <<daemon_vars, query_vars, codec_vars, compile_vars, search_vars>>

Max(a, b) == IF a > b THEN a ELSE b
Min(a, b) == IF a < b THEN a ELSE b
Last(s) == s[Len(s)]

(***************************************************************************)
(* The store: data_entries/repo.rs                                         *)
(***************************************************************************)
HasRow(table, address, key) ==
    \E r \in table : r.address = address /\ r.key = key

\* repo.rs:41-49  INSERT ... ON CONFLICT (address, key) DO NOTHING:
\* rows are taken in order, a row whose key already exists (in the table
\* or earlier in the same statement) is skipped.
RECURSIVE insert_entries(_, _)
insert_entries(table, es) ==
    IF es = <<>> THEN table
    ELSE LET e == Head(es)
             t1 == IF HasRow(table, e.address, e.key)
                   THEN table
                   ELSE table \cup {e}
         IN  insert_entries(t1, Tail(es))

\* a deletion that spares the rows written at or above the removal's height
delete_entries_below(table, ds) ==
    {r \in table :
        ~ \E i \in 1..Len(ds) : /\ ds[i].address = r.address
                                 /\ ds[i].key = r.key
                                 /\ r.height < ds[i].height}

\* repo.rs:51-57  delete from data_entries where (address, key) = ANY($1)
delete_entries(table, ds) ==
    {r \in table :
        ~ \E i \in 1..Len(ds) : ds[i].address = r.address /\ ds[i].key = r.key}

(***************************************************************************)
(* The upstream: what fetch_updates can hand back for a range              *)
(* (data_entries/updates.rs:163-193).  Block updates arrive in height      *)
(* order and every block's appends and removals are pushed in that order,  *)
(* so both lists are sorted by height; heights lie in the requested range  *)
(* and never above the chain tip.                                          *)
(***************************************************************************)
Sorted(s) == \A i \in 1..Len(s) - 1 : s[i].height <= s[i + 1].height

SeqsUpTo(S, n) == UNION {[1..k -> S] : k \in 0..n}

InsertEvents(lo, hi) ==
    [address : Addresses, key : Keys, height : lo..hi, value : Values]
DeleteEvents(lo, hi) ==
    [address : Addresses, key : Keys, height : lo..hi]

FetchResults(lo, hi) ==
    {u \in SeqsUpTo(InsertEvents(lo, Min(hi, MaxHeight)), MaxInserts)
            \X SeqsUpTo(DeleteEvents(lo, Min(hi, MaxHeight)), MaxDeletes) :
        Sorted(u[1]) /\ Sorted(u[2])}

\* a failed fetch that leaves the previous iteration's batch in place
OnFetchError_stale == updates

\* daemon.rs:40  unwrap_or_else(|_| (Vec::new(), Vec::new()))
OnFetchError == <<<<>>, <<>>>>

(***************************************************************************)
(* The reconciler loop: data_entries/daemon.rs start()                     *)
(***************************************************************************)
\* daemon.rs:19-30  the largest u32.  The checker's integers are 32 bits
\* wide and signed, so 2^30 - 1 stands for 2^32 - 1: sums of two words stay
\* representable.
U32_MAX == 1073741823

\* u32 `+` and `-` of a build without overflow checks: modulo 2^32
wrapping_add(a, b) == IF a > U32_MAX - b THEN a - (U32_MAX - b) - 1 ELSE a + b
wrapping_sub(a, b) == IF a < b THEN U32_MAX - (b - a) + 1 ELSE a - b

\* a range that starts at the watermark itself
FromHeight_at_watermark(lhh, minh) == IF lhh < minh THEN minh ELSE lhh

\* daemon.rs:25-29
FromHeight(lhh, minh) == IF lhh < minh THEN minh ELSE wrapping_add(lhh, 1)
\* daemon.rs:30  from_height + (blocks_per_request as u32) - 1, left to right
ToHeight(from, bpr) == wrapping_sub(wrapping_add(from, bpr), 1)

\* daemon.rs:28, 30  one of the three operations leaves the u32 range
Overflows(lhh, minh, bpr) ==
    \/ lhh >= minh /\ lhh = U32_MAX
    \/ FromHeight(lhh, minh) > U32_MAX - bpr
    \/ FromHeight(lhh, minh) + bpr < 1

\* daemon.rs:59-73
LastUpdatedHeight(ups) ==
    IF Len(ups[1]) > 0
    THEN IF Len(ups[2]) > 0
         THEN IF Last(ups[2]).height > Last(ups[1]).height
              THEN <<Last(ups[2]).height>>
              ELSE <<Last(ups[1]).height>>
         ELSE <<Last(ups[1]).height>>
    ELSE <<>>

\* a backoff test that counts the inserts only
ShouldSleep_inserts_only(ups) == Len(ups[1]) = 0

\* daemon.rs:80-86  entries_inserted + entries_deleted == 0
ShouldSleep(ups) == Len(ups[1]) + Len(ups[2]) = 0

\* daemon.rs:23-35  read the watermark, compute the range
GetHeight ==
    /\ pc = "loop"
    /\ lhh_read' = last_handled_height
    /\ from_height' = FromHeight(last_handled_height, min_height)
    /\ to_height' = ToHeight(FromHeight(last_handled_height, min_height),
                             blocks_per_request)
    /\ pc' = "fetch"
    /\ UNCHANGED <<min_height, blocks_per_request, last_handled_height,
                   data_entries, updates, fetch_failed, store_error, slept,
                   query_vars, codec_vars, compile_vars,
                   search_vars>>

\* daemon.rs:23  get_last_handled_height().unwrap() on Err
GetHeightFail ==
    /\ pc = "loop"
    /\ store_error' = "get_last_handled_height"
    /\ pc' = "halted"
    /\ UNCHANGED <<min_height, blocks_per_request, last_handled_height,
                   data_entries, lhh_read, from_height, to_height, updates,
                   fetch_failed, slept, query_vars, codec_vars, compile_vars,
                   search_vars>>

\* daemon.rs:28, 30  a build with overflow checks panics when the range
\* leaves u32 (a build without them takes GetHeight with the wrapped values)
GetHeightOverflow ==
    /\ pc = "loop"
    /\ Overflows(last_handled_height, min_height, blocks_per_request)
    /\ store_error' = "arithmetic_overflow"
    /\ pc' = "halted"
    /\ UNCHANGED <<min_height, blocks_per_request, last_handled_height,
                   data_entries, lhh_read, from_height, to_height, updates,
                   fetch_failed, slept, query_vars, codec_vars, compile_vars,
                   search_vars>>

\* daemon.rs:37-40  fetch_updates returned Ok
FetchOk ==
    /\ pc = "fetch"
    /\ \E u \in FetchResults(from_height, to_height) : updates' = u
    /\ fetch_failed' = FALSE
    /\ slept' = 0
    /\ pc' = "insert"
    /\ UNCHANGED <<min_height, blocks_per_request, last_handled_height,
                   data_entries, lhh_read, from_height, to_height,
                   store_error, query_vars, codec_vars, compile_vars,
                   search_vars>>

\* daemon.rs:37-40  fetch_updates returned Err
FetchErr ==
    /\ pc = "fetch"
    /\ updates' = OnFetchError
    /\ fetch_failed' = TRUE
    /\ slept' = 0
    /\ pc' = "insert"
    /\ UNCHANGED <<min_height, blocks_per_request, last_handled_height,
                   data_entries, lhh_read, from_height, to_height,
                   store_error, query_vars, codec_vars, compile_vars,
                   search_vars>>

\* daemon.rs:42-44
InsertEntries ==
    /\ pc = "insert"
    /\ data_entries' = IF Len(updates[1]) > 0
                       THEN insert_entries(data_entries, updates[1])
                       ELSE data_entries
    /\ pc' = "delete"
    /\ UNCHANGED <<min_height, blocks_per_request, last_handled_height,
                   lhh_read, from_height, to_height, updates, fetch_failed,
                   store_error, slept, query_vars, codec_vars, compile_vars,
                   search_vars>>

\* an insert error that is logged and skipped instead of unwrapped
InsertEntriesFail_skipped ==
    /\ pc = "insert"
    /\ Len(updates[1]) > 0
    /\ store_error' = "insert_entries"
    /\ pc' = "delete"
    /\ UNCHANGED <<min_height, blocks_per_request, last_handled_height,
                   data_entries, lhh_read, from_height, to_height, updates,
                   fetch_failed, slept, query_vars, codec_vars, compile_vars,
                   search_vars>>

\* daemon.rs:43  insert_entries(..).unwrap() on Err
InsertEntriesFail ==
    /\ pc = "insert"
    /\ Len(updates[1]) > 0
    /\ store_error' = "insert_entries"
    /\ pc' = "halted"
    /\ UNCHANGED <<min_height, blocks_per_request, last_handled_height,
                   data_entries, lhh_read, from_height, to_height, updates,
                   fetch_failed, slept, query_vars, codec_vars, compile_vars,
                   search_vars>>

\* daemon.rs:46-57
DeleteEntries ==
    /\ pc = "delete"
    /\ data_entries' = IF Len(updates[2]) > 0
                       THEN delete_entries(data_entries, updates[2])
                       ELSE data_entries
    /\ pc' = "set_height"
    /\ UNCHANGED <<min_height, blocks_per_request, last_handled_height,
                   lhh_read, from_height, to_height, updates, fetch_failed,
                   store_error, slept, query_vars, codec_vars, compile_vars,
                   search_vars>>

\* daemon.rs:56  delete_entries(..).unwrap() on Err
DeleteEntriesFail ==
    /\ pc = "delete"
    /\ Len(updates[2]) > 0
    /\ store_error' = "delete_entries"
    /\ pc' = "halted"
    /\ UNCHANGED <<min_height, blocks_per_request, last_handled_height,
                   data_entries, lhh_read, from_height, to_height, updates,
                   fetch_failed, slept, query_vars, codec_vars, compile_vars,
                   search_vars>>

\* daemon.rs:59-78
SetHeight ==
    /\ pc = "set_height"
    /\ last_handled_height' =
           IF LastUpdatedHeight(updates) # <<>>
           THEN LastUpdatedHeight(updates)[1]
           ELSE last_handled_height
    /\ pc' = "tail"
    /\ UNCHANGED <<min_height, blocks_per_request, data_entries, lhh_read,
                   from_height, to_height, updates, fetch_failed,
                   store_error, slept, query_vars, codec_vars, compile_vars,
                   search_vars>>

\* daemon.rs:76  set_last_handled_height(..).unwrap() on Err
SetHeightFail ==
    /\ pc = "set_height"
    /\ LastUpdatedHeight(updates) # <<>>
    /\ store_error' = "set_last_handled_height"
    /\ pc' = "halted"
    /\ UNCHANGED <<min_height, blocks_per_request, last_handled_height,
                   data_entries, lhh_read, from_height, to_height, updates,
                   fetch_failed, slept, query_vars, codec_vars, compile_vars,
                   search_vars>>

\* daemon.rs:80-89  a range with events: next iteration at once
Continue ==
    /\ pc = "tail"
    /\ ~ ShouldSleep(updates)
    /\ pc' = "loop"
    /\ UNCHANGED <<min_height, blocks_per_request, last_handled_height,
                   data_entries, lhh_read, from_height, to_height, updates,
                   fetch_failed, store_error, slept, query_vars, codec_vars, compile_vars,
                   search_vars>>

\* daemon.rs:86-88  no events: delay_for(5s), then the next iteration
Sleep ==
    /\ pc = "tail"
    /\ ShouldSleep(updates)
    /\ slept' = BACKOFF_SECS
    /\ pc' = "loop"
    /\ UNCHANGED <<min_height, blocks_per_request, last_handled_height,
                   data_entries, lhh_read, from_height, to_height, updates,
                   fetch_failed, store_error, query_vars, codec_vars, compile_vars,
                   search_vars>>

DaemonNext ==
    \/ GetHeight
    \/ GetHeightFail
    \/ FetchOk
    \/ FetchErr
    \/ InsertEntries
    \/ InsertEntriesFail
    \/ DeleteEntries
    \/ DeleteEntriesFail
    \/ SetHeight
    \/ SetHeightFail
    \/ Continue
    \/ Sleep

DaemonInit ==
    /\ min_height \in 0..MaxMinHeight
    /\ blocks_per_request \in 1..MaxBlocksPerRequest
    /\ last_handled_height = 0
    /\ data_entries = {}
    /\ pc = "loop"
    /\ lhh_read = 0
    /\ from_height = 0
    /\ to_height = 0
    /\ updates = <<<<>>, <<>>>>
    /\ fetch_failed = FALSE
    /\ store_error = "none"
    /\ slept = 0

(***************************************************************************)
(* Point-in-time parameters: api/historical.rs                             *)
(***************************************************************************)
\* api/errors.rs:95  ValidationErrorCode::InvalidParamenterValue
InvalidParamenterValue == 950201

\* data_entries.rs:80  const MAX_UID: i64 = std::i64::MAX - 1, the marker of
\* a row that is not superseded; the largest-but-one integer TLC
\* represents stands for it.
MAX_UID == 2147483646

DigitChars == {"0", "1", "2", "3", "4", "5", "6", "7", "8", "9"}
DigitValue ==
    [c \in DigitChars |->
        CASE c = "0" -> 0 [] c = "1" -> 1 [] c = "2" -> 2 [] c = "3" -> 3
          [] c = "4" -> 4 [] c = "5" -> 5 [] c = "6" -> 6 [] c = "7" -> 7
          [] c = "8" -> 8 [] c = "9" -> 9]

RECURSIVE DecimalValue(_)
DecimalValue(s) ==
    IF s = <<>> THEN 0
    ELSE DecimalValue(SubSeq(s, 1, Len(s) - 1)) * 10 + DigitValue[Last(s)]

\* historical.rs:15  s.parse::<i64>(): an optional sign, then one or more
\* decimal digits (texts long enough to overflow i64 are out of the bounds)
ParseI64(s) ==
    IF s = <<>>
    THEN [ok |-> FALSE, reason |-> "cannot parse integer from empty string"]
    ELSE LET digits == IF s[1] \in {"+", "-"} THEN Tail(s) ELSE s
         IN  IF digits = <<>> \/ \E i \in 1..Len(digits) : digits[i] \notin DigitChars
             THEN [ok |-> FALSE, reason |-> "invalid digit found in string"]
             ELSE [ok |-> TRUE,
                   value |-> IF s[1] = "-" THEN 0 - DecimalValue(digits)
                             ELSE DecimalValue(digits)]

\* historical.rs:44  DateTime::parse_from_rfc3339(&d), then d.into(): a raw
\* text is carried with the instant it denotes (whole seconds and a
\* sub-second part), or with none when it is not RFC 3339; the DateTime is
\* that instant in clock ticks.
ParseRfc3339(raw) ==
    IF raw.instant = <<>>
    THEN [ok |-> FALSE, reason |-> "input contains invalid characters"]
    ELSE [ok |-> TRUE,
          value |-> raw.instant[1] * TicksPerSecond + raw.instant[2]]

\* historical.rs:17-29, 46-58  the rejection built for a parameter
ValidationError(parameter, reason) ==
    [ok |-> FALSE, code |-> InvalidParamenterValue,
     parameter |-> parameter, reason |-> reason]

\* a check_valid that lets every combination through
check_valid_always(p) == TRUE

\* historical.rs:80-97  check_valid: Ok(()) unless both are Some
check_valid(p) == ~ (p.block_timestamp # <<>> /\ p.height # <<>>)

\* historical.rs:76-78
is_empty(p) == p.block_timestamp = <<>> /\ p.height = <<>>

\* historical.rs:39-74  HistoricalRequestParams::from_hashmap;
\* m.block_timestamp and m.height are the map's entries, <<>> when absent
from_hashmap(m) ==
    IF m.block_timestamp # <<>> /\ ~ ParseRfc3339(m.block_timestamp[1]).ok
    THEN ValidationError(m.block_timestamp[1].text,
                         ParseRfc3339(m.block_timestamp[1]).reason)
    ELSE IF m.height # <<>> /\ ~ ParseI64(m.height[1]).ok
    THEN ValidationError("height", ParseI64(m.height[1]).reason)
    ELSE LET res == [ok |-> TRUE,
                     block_timestamp |->
                         IF m.block_timestamp = <<>> THEN <<>>
                         ELSE <<ParseRfc3339(m.block_timestamp[1]).value>>,
                     height |->
                         IF m.height = <<>> THEN <<>>
                         ELSE <<ParseI64(m.height[1]).value>>]
         IN  IF check_valid(res) THEN res
             ELSE ValidationError("height, block_timestamp",
                                  "only one historical parameter must be used")

(***************************************************************************)
(* The historical resolver: data_entries.rs Repo::find_entities_uids       *)
(***************************************************************************)
\* data_entries.rs:218  DateTime::timestamp(): whole seconds since the epoch
timestamp(dt) == dt \div TicksPerSecond
\* data_entries.rs:198  to_timestamp($1): the instant of a count of seconds
to_timestamp(secs) == secs * TicksPerSecond

\* "order by <column> desc, data_entry_uid desc limit 1" over the rows
\* selected by a subquery
Limit1(selected, column) ==
    {r.data_entry_uid : r \in
        {r \in selected : \A o \in selected :
            \/ o[column] < r[column]
            \/ (o[column] = r[column] /\ o.data_entry_uid <= r.data_entry_uid)}}

\* data_entries.rs:186-192  the subquery pushed for a pair when hp.height is set
HeightSubquery(table, e, bound) ==
    Limit1({r \in table : r.address = e.address /\ r.key = e.key
                            /\ r.height <= bound}, "height")

\* data_entries.rs:195-203  the subquery pushed when hp.block_timestamp is set
TimestampSubquery(table, e, bound) ==
    Limit1({r \in table : r.address = e.address /\ r.key = e.key
                            /\ r.block_timestamp <= to_timestamp(bound)},
           "block_timestamp")

\* a resolver without the early return, which falls back to the newest
\* version of every pair when no bound is given
find_entities_uids_latest(table, p, es) ==
    [uids |-> UNION {Limit1({r \in table : r.address = es[i].address
                                            /\ r.key = es[i].key}, "height")
                        : i \in 1..Len(es)},
     reads |-> IF Len(es) > 0 THEN 1 ELSE 0]

\* data_entries.rs:175-232  the uids returned and the number of statements
\* run against data_entries_history_keys
find_entities_uids(table, p, es) ==
    IF is_empty(p) THEN [uids |-> {}, reads |-> 0]
    ELSE LET bound == IF p.height # <<>> THEN p.height[1]
                      ELSE timestamp(p.block_timestamp[1])
             by_height ==
                 IF p.height # <<>>
                 THEN UNION {HeightSubquery(table, es[i], bound) : i \in 1..Len(es)}
                 ELSE {}
             by_timestamp ==
                 IF p.block_timestamp # <<>>
                 THEN UNION {TimestampSubquery(table, es[i], bound) : i \in 1..Len(es)}
                 ELSE {}
         IN  IF Len(es) = 0 THEN [uids |-> {}, reads |-> 0]
             ELSE [uids |-> by_height \cup by_timestamp, reads |-> 1]

(***************************************************************************)
(* Repo::mget_data_entries and the handler that calls it                   *)
(***************************************************************************)
\* data_entries.rs:97  BASE_QUERY's WHERE: the row carries a value
HasValue(r) == r.value # <<>>

\* api/sql.rs:281-296  (address, key) IN (('a','k'), ...)
InEntries(r, es) ==
    \E i \in 1..Len(es) : es[i].address = r.address /\ es[i].key = r.key

\* the historical_filter argument: the rows bound to the current state
\* (superseded_by = $1 with $1 = MAX_UID) or the rows of the resolved uids
MatchesHistoricalFilter(r, hf) ==
    IF hf.kind = "current" THEN r.superseded_by = MAX_UID
    ELSE r.uid \in hf.uids

\* a query that drops the historical_filter text
mget_data_entries_unfiltered(table, es, hf) ==
    {r \in table : HasValue(r) /\ InEntries(r, es)}

\* data_entries.rs:148-173  BASE_QUERY AND (filter) historical_filter
mget_data_entries(table, es, hf) ==
    {r \in table : HasValue(r) /\ InEntries(r, es)
                     /\ MatchesHistoricalFilter(r, hf)}

(***************************************************************************)
(* The stored history a request runs against                               *)
(***************************************************************************)
\* versions that may have been recorded, by row identifier: two versions of
\* (a1,k1) in one block, a later removal of it, two versions of (a1,k2)
\* recorded in the same block at the same instant
Catalog ==
    <<[address |-> "a1", key |-> "k1", height |-> 1, block_timestamp |-> 2, value |-> <<"v1">>],
      [address |-> "a1", key |-> "k1", height |-> 1, block_timestamp |-> 3, value |-> <<"v2">>],
      [address |-> "a1", key |-> "k1", height |-> 2, block_timestamp |-> 5, value |-> <<>>],
      [address |-> "a1", key |-> "k2", height |-> 2, block_timestamp |-> 4, value |-> <<"v1">>],
      [address |-> "a1", key |-> "k2", height |-> 2, block_timestamp |-> 4, value |-> <<"v2">>]>>

SupersededBy(u, S) ==
    LET later == {w \in S : w > u /\ Catalog[w].address = Catalog[u].address
                                  /\ Catalog[w].key = Catalog[u].key}
    IN  IF later = {} THEN MAX_UID
        ELSE CHOOSE w \in later : \A x \in later : w <= x

VersionRow(u, S) ==
    [uid |-> u, address |-> Catalog[u].address, key |-> Catalog[u].key,
     value |-> Catalog[u].value, superseded_by |-> SupersededBy(u, S)]

HistoryKeyRow(u) ==
    [data_entry_uid |-> u, address |-> Catalog[u].address,
     key |-> Catalog[u].key, height |-> Catalog[u].height,
     block_timestamp |-> Catalog[u].block_timestamp]

\* ---- the requests ----
RawChars == {"1", "2", "-", "x"}
RawHeights == SeqsUpTo(RawChars, MaxRawLen)
RawTimestamps ==
    {[text |-> "yesterday", instant |-> <<>>]}
        \cup {[text |-> "rfc3339", instant |-> <<sec, frac>>] :
                sec \in 0..MaxSecs, frac \in 0..TicksPerSecond - 1}
Optional(S) == {<<>>} \cup {<<x>> : x \in S}
EntryPairs == [address : {"a1"}, key : {"k1", "k2", "k3"}]

NoParams == [block_timestamp |-> <<>>, height |-> <<>>]

\* the rows returned for the pair
RowsOf(rs, entry) ==
    {r \in rs : r.address = entry.address /\ r.key = entry.key}

\* api/mod.rs:147-161  the rows are collected into a HashMap keyed by
\* (address, key), of several rows of one pair one stays; then each requested
\* pair, in request order, takes its row out with data_entries_map.remove(k):
\* a pair that occurred earlier in the request finds the map without it
MgetResponses(rs, es) ==
    {resp \in [1..Len(es) -> Optional(rs)] :
        \A i \in 1..Len(es) :
            IF \/ RowsOf(rs, es[i]) = {}
               \/ \E j \in 1..(i - 1) : es[j] = es[i]
            THEN resp[i] = <<>>
            ELSE resp[i] # <<>> /\ resp[i][1] \in RowsOf(rs, es[i])}

\* a request arrives: its query string and its address_key_pairs
ReceiveRequest ==
    /\ qpc = "idle"
    /\ \E h \in Optional(RawHeights), t \in Optional(RawTimestamps) :
           query' = [block_timestamp |-> t, height |-> h]
    /\ entries' \in SeqsUpTo(EntryPairs, MaxEntries)
    /\ qpc' = "parse"
    /\ UNCHANGED <<de_versions, history_keys, hp, uids, history_reads, rows,
                   response, outcome, daemon_vars, codec_vars, compile_vars,
                   search_vars>>

\* historical.rs:39-74  a rejection ends the request with the validation error
FromHashmap ==
    /\ qpc = "parse"
    /\ hp' = from_hashmap(query)
    /\ IF from_hashmap(query).ok
       THEN qpc' = "resolve" /\ outcome' = outcome
       ELSE qpc' = "done" /\ outcome' = "validation_error"
    /\ UNCHANGED <<de_versions, history_keys, query, entries, uids,
                   history_reads, rows, response, daemon_vars, codec_vars,
                   compile_vars, search_vars>>

\* data_entries.rs:175-232
FindEntitiesUids ==
    /\ qpc = "resolve"
    /\ uids' = find_entities_uids(history_keys, hp, entries).uids
    /\ history_reads' =
           history_reads + find_entities_uids(history_keys, hp, entries).reads
    /\ qpc' = "lookup"
    /\ UNCHANGED <<de_versions, history_keys, query, entries, hp, rows,
                   response, outcome, daemon_vars, codec_vars, compile_vars,
                   search_vars>>

\* the multi-get handler around the resolver (spec 4.4): point-in-time
\* parameters with an empty resolved set end in not-found; without
\* parameters the current rows are read; otherwise the resolved rows
MgetEntries ==
    /\ qpc = "lookup"
    /\ IF ~ is_empty(hp) /\ uids = {}
       THEN /\ outcome' = "not_found"
            /\ rows' = {}
            /\ response' = <<>>
       ELSE /\ outcome' = "ok"
            /\ rows' = mget_data_entries(de_versions, entries,
                           IF is_empty(hp) THEN [kind |-> "current"]
                           ELSE [kind |-> "uids", uids |-> uids])
            /\ response' \in MgetResponses(rows', entries)
    /\ qpc' = "done"
    /\ UNCHANGED <<de_versions, history_keys, query, entries, hp, uids,
                   history_reads, daemon_vars, codec_vars, compile_vars,
                   search_vars>>

QueryNext ==
    \/ ReceiveRequest
    \/ FromHashmap
    \/ FindEntitiesUids
    \/ MgetEntries

QueryIdle ==
    /\ query = NoParams
    /\ entries = <<>>
    /\ hp = [ok |-> TRUE, block_timestamp |-> <<>>, height |-> <<>>]
    /\ uids = {}
    /\ history_reads = 0
    /\ rows = {}
    /\ response = <<>>
    /\ outcome = "none"
    /\ qpc = "idle"

\* the reconciler at rest
DaemonIdle ==
    /\ min_height = 0
    /\ blocks_per_request = 1
    /\ last_handled_height = 0
    /\ data_entries = {}
    /\ pc = "loop"
    /\ lhh_read = 0
    /\ from_height = 0
    /\ to_height = 0
    /\ updates = <<<<>>, <<>>>>
    /\ fetch_failed = FALSE
    /\ store_error = "none"
    /\ slept = 0

\* no block served yet, no text escaped, no filter compiled, no search
\* request received
CodecIdle == chain = <<>>

CompileIdle ==
    /\ text = <<>>
    /\ escaped = <<>>
    /\ filter = <<>>
    /\ where_sql = <<>>
    /\ sort = <<>>
    /\ sort_sql = <<>>
    /\ cpc = "idle"
    /\ raw_filter = <<>>
    /\ node = <<>>

SearchIdle ==
    /\ req = <<>>
    /\ validation = <<>>
    /\ searched = <<>>
    /\ found = <<>>
    /\ page = <<>>
    /\ spc = "idle"

QueryInit ==
    /\ DaemonIdle
    /\ QueryIdle
    /\ CodecIdle
    /\ CompileIdle
    /\ SearchIdle
    /\ \E S \in SUBSET (1..Len(Catalog)) :
        /\ de_versions = {VersionRow(u, S) : u \in S}
        /\ history_keys = {HistoryKeyRow(u) : u \in S}

QuerySpec == QueryInit /\ [][QueryNext]_vars

Init ==
    /\ DaemonInit
    /\ QueryIdle
    /\ de_versions = {}
    /\ history_keys = {}
    /\ CodecIdle
    /\ CompileIdle
    /\ SearchIdle
Next == DaemonNext
Spec == Init /\ [][Next]_vars

\* ---- the range computation over the whole width of its operands ----
\* configured and stored values at both ends of u32
WordEnds == {0, 1, 2, U32_MAX - 1, U32_MAX}

RangeInit ==
    /\ min_height \in WordEnds
    /\ blocks_per_request \in WordEnds
    /\ last_handled_height \in WordEnds
    /\ data_entries = {}
    /\ pc = "loop"
    /\ lhh_read = 0
    /\ from_height = 0
    /\ to_height = 0
    /\ updates = <<<<>>, <<>>>>
    /\ fetch_failed = FALSE
    /\ store_error = "none"
    /\ slept = 0
    /\ QueryIdle
    /\ de_versions = {}
    /\ history_keys = {}
    /\ CodecIdle
    /\ CompileIdle
    /\ SearchIdle

\* an iteration from the head of the loop on, against an upstream that
\* cannot be reached
RangeNext ==
    \/ GetHeight
    \/ GetHeightOverflow
    \/ FetchErr
    \/ InsertEntries
    \/ DeleteEntries
    \/ SetHeight
    \/ Sleep

RangeSpec == RangeInit /\ [][RangeNext]_vars

(***************************************************************************)
(* The process around the loop: main.rs spawns start() once; a panic or a  *)
(* kill ends it, and only a new process run starts the loop again.         *)
(***************************************************************************)
\* the process is killed between two steps of the loop
Crash ==
    /\ pc \notin {"crashed", "halted"}
    /\ pc' = "crashed"
    /\ UNCHANGED <<min_height, blocks_per_request, last_handled_height,
                   data_entries, lhh_read, from_height, to_height, updates,
                   fetch_failed, store_error, slept, query_vars, codec_vars, compile_vars,
                   search_vars>>

\* main.rs:28-41  a new process run enters start() with fresh locals
Restart ==
    /\ pc \in {"crashed", "halted"}
    /\ pc' = "loop"
    /\ lhh_read' = 0
    /\ from_height' = 0
    /\ to_height' = 0
    /\ updates' = <<<<>>, <<>>>>
    /\ fetch_failed' = FALSE
    /\ store_error' = "none"
    /\ slept' = 0
    /\ UNCHANGED <<min_height, blocks_per_request, last_handled_height,
                   data_entries, query_vars, codec_vars, compile_vars,
                   search_vars>>

CrashNext == DaemonNext \/ Crash \/ Restart
CrashSpec == Init /\ [][CrashNext]_vars

(***************************************************************************)
(* The key-fragment codec: data_entries/updates.rs                         *)
(***************************************************************************)
\* updates.rs:16-17
STRING_SEPARATOR == "$"
INTEGER_SEPARATOR == "#"

\* updates.rs:20  the number of capture groups RE is written with
RE_GROUPS == 9
\* updates.rs:111-134  the fragment columns filled: positions 0..10
FRAGMENT_COLUMNS == 11

\* the characters keys are written in
KeyChars == {"$", "#", "a", "1", "-"}
\* the class \w, and the class [0-9-], among them
WordChars == {"a", "1"}
IntChars == {"1", "-"}

\* the length of the longest prefix of s written in the class C
RECURSIVE RunLength(_, _)
RunLength(s, C) ==
    IF s = <<>> \/ Head(s) \notin C THEN 0
    ELSE 1 + RunLength(Tail(s), C)

\* updates.rs:20  one group (\$\w*|#[0-9-]+) matched at the head of s: the
\* length of its match, 0 when it does not match.  Both quantifiers are
\* greedy and whatever follows a group is optional, so a group takes the
\* longest run.
GroupLength(s) ==
    IF s = <<>> THEN 0
    ELSE IF Head(s) = STRING_SEPARATOR
         THEN 1 + RunLength(Tail(s), WordChars)
    ELSE IF Head(s) = INTEGER_SEPARATOR /\ RunLength(Tail(s), IntChars) > 0
         THEN 1 + RunLength(Tail(s), IntChars)
    ELSE 0

RECURSIVE Groups(_, _)
Groups(s, n) ==
    IF n = 0 \/ GroupLength(s) = 0 THEN <<>>
    ELSE <<SubSeq(s, 1, GroupLength(s))>>
            \o Groups(SubSeq(s, GroupLength(s) + 1, Len(s)), n - 1)

\* updates.rs:81  RE.captures(key): the texts of the groups that took part
\* in the match, in order (the first group is mandatory, anchored at the
\* start; a group that fails ends the match); <<>> when RE does not match
captures(key) == Groups(key, RE_GROUPS)

\* updates.rs:156-158  RE.is_match(key)
is_suitable_for_index(key) == GroupLength(key) > 0

\* str::trim_start_matches: every leading occurrence of c removed
RECURSIVE trim_start_matches(_, _)
trim_start_matches(s, c) ==
    IF s # <<>> /\ Head(s) = c THEN trim_start_matches(Tail(s), c) ELSE s

\* i32::MAX, digit by digit
I32_MAX_DIGITS == <<"2", "1", "4", "7", "4", "8", "3", "6", "4", "7">>

\* a > b for two digit texts of the same length
RECURSIVE DigitsGreater(_, _)
DigitsGreater(a, b) ==
    IF a = <<>> THEN FALSE
    ELSE IF Head(a) # Head(b) THEN DigitValue[Head(a)] > DigitValue[Head(b)]
    ELSE DigitsGreater(Tail(a), Tail(b))

\* the number the digits write is above i32::MAX
ExceedsI32(digits) ==
    LET significant == trim_start_matches(digits, "0")
    IN  \/ Len(significant) > Len(I32_MAX_DIGITS)
        \/ /\ Len(significant) = Len(I32_MAX_DIGITS)
           /\ DigitsGreater(significant, I32_MAX_DIGITS)

\* updates.rs:38  str::parse::<i32>(): an optional sign, then one or more
\* digits; Err, here <<>>, for any other text and for a number outside i32
\* (i32::MIN itself is never written in the key alphabet)
ParseI32(s) ==
    IF s = <<>> THEN <<>>
    ELSE LET digits == IF s[1] \in {"+", "-"} THEN Tail(s) ELSE s
         IN  IF digits = <<>> \/ \E i \in 1..Len(digits) : digits[i] \notin DigitChars
             THEN <<>>
             ELSE IF ExceedsI32(digits) THEN <<>>
             ELSE <<IF s[1] = "-" THEN 0 - DecimalValue(digits)
                    ELSE DecimalValue(digits)>>

\* updates.rs:23-31  caps.get(position + 1) is None for a group that took no
\* part in the match and for an index the pattern has no group for
extract_string_fragment(caps, position) ==
    IF position + 1 > Len(caps) THEN <<>>
    ELSE IF Head(caps[position + 1]) = STRING_SEPARATOR
         THEN <<trim_start_matches(caps[position + 1], STRING_SEPARATOR)>>
         ELSE <<>>

\* updates.rs:33-44
extract_integer_fragment(caps, position) ==
    IF position + 1 > Len(caps) THEN <<>>
    ELSE IF Head(caps[position + 1]) = INTEGER_SEPARATOR
         THEN ParseI32(trim_start_matches(caps[position + 1], INTEGER_SEPARATOR))
         ELSE <<>>

\* updates.rs:111-134  the fragment columns of an InsertableDataEntry
Fragments(caps) ==
    [position \in 0..FRAGMENT_COLUMNS - 1 |->
        [integer |-> extract_integer_fragment(caps, position),
         string |-> extract_string_fragment(caps, position)]]

\* updates.rs:59-154  collect_data_entries over the data entries des of the
\* block update at the given height: <<to_insert, to_delete>>
RECURSIVE collect_data_entries(_, _)
collect_data_entries(height, des) ==
    IF des = <<>> THEN <<<<>>, <<>>>>
    ELSE LET de == Head(des)
             next == collect_data_entries(height, Tail(des))
         IN  IF ~ is_suitable_for_index(de.key) THEN next
             ELSE IF de.value # <<>>
             THEN <<<<[address |-> de.address, key |-> de.key,
                       height |-> height, value |-> de.value[1],
                       fragments |-> Fragments(captures(de.key))]>> \o next[1],
                    next[2]>>
             ELSE <<next[1],
                    <<[address |-> de.address, key |-> de.key,
                       height |-> height]>> \o next[2]>>

\* updates.rs:163-193  fetch_updates: the block updates of the range the
\* upstream holds, collected in height order
RECURSIVE fetch_updates(_, _, _)
fetch_updates(blocks, from, to) ==
    IF from > to \/ from > Len(blocks) THEN <<<<>>, <<>>>>
    ELSE LET head == collect_data_entries(from, blocks[from])
             rest == fetch_updates(blocks, from + 1, to)
         IN  <<head[1] \o rest[1], head[2] \o rest[2]>>

\* ---- the keys the upstream may carry ----
FragmentPool ==
    <<<<"$", "a">>, <<"#", "1">>, <<"$">>, <<"#", "-", "1">>>>

\* the key made of the n fragments of the pool that follow its k-th one
RECURSIVE KeyOfFragments(_, _)
KeyOfFragments(n, k) ==
    IF n = 0 THEN <<>>
    ELSE FragmentPool[(k % Len(FragmentPool)) + 1] \o KeyOfFragments(n - 1, k + 1)

\* keys whose first fragment is written as an integer but is none: `#1-1`,
\* and eleven digits, more than any i32 has
IntegerEdgeKeys ==
    {<<"#", "1", "-", "1", "$", "a">>,
     <<"#">> \o [i \in 1..Len(I32_MAX_DIGITS) + 1 |-> "1"] \o <<"#", "1">>}

RawKeys ==
    SeqsUpTo(KeyChars, MaxKeyLen)
        \cup {KeyOfFragments(n, k) : n \in 1..MaxFragments, k \in 1..Len(FragmentPool)}
        \cup IntegerEdgeKeys

\* a data entry of a block update: an append carries a value, a removal none
RawDataEntries == [address : Addresses, key : RawKeys, value : Optional({"v1"})]

\* daemon.rs:37-40 with updates.rs:163-193: the range is fetched from the
\* upstream and decoded
FetchUpdates ==
    /\ pc = "fetch"
    /\ updates' = fetch_updates(chain, from_height, to_height)
    /\ fetch_failed' = FALSE
    /\ slept' = 0
    /\ pc' = "insert"
    /\ UNCHANGED <<min_height, blocks_per_request, last_handled_height,
                   data_entries, lhh_read, from_height, to_height,
                   store_error, query_vars, codec_vars, compile_vars,
                   search_vars>>

CodecNext ==
    \/ GetHeight
    \/ FetchUpdates
    \/ InsertEntries
    \/ DeleteEntries
    \/ SetHeight
    \/ Continue
    \/ Sleep

\* the upstream has produced one block
CodecInit ==
    /\ DaemonIdle
    /\ QueryIdle
    /\ de_versions = {}
    /\ history_keys = {}
    /\ chain \in {<<block>> : block \in SeqsUpTo(RawDataEntries, MaxBlockEntries)}
    /\ CompileIdle
    /\ SearchIdle

CodecSpec == CodecInit /\ [][CodecNext]_vars

\* ---- the loop against an upstream that stands still ----
\* a block without data entries, or with one append or one removal of an
\* indexable key
LiveBlocks ==
    {<<>>} \cup {<<[address |-> "a1", key |-> <<"$", "a">>, value |-> v]>> :
                    v \in Optional({"v1"})}

LiveInit ==
    /\ DaemonInit
    /\ QueryIdle
    /\ de_versions = {}
    /\ history_keys = {}
    /\ chain \in UNION {[1..n -> LiveBlocks] : n \in 1..MaxChainLen}
    /\ CompileIdle
    /\ SearchIdle

LiveNext ==
    \/ GetHeight
    \/ FetchUpdates
    \/ FetchErr
    \/ InsertEntries
    \/ DeleteEntries
    \/ SetHeight
    \/ Continue
    \/ Sleep

\* daemon.rs:22-89  the loop is one task of the runtime and each of its steps
\* returns, so it keeps taking steps; a fetch may fail any number of times
\* but succeeds again and again
LiveFairness == WF_vars(LiveNext) /\ SF_vars(FetchUpdates)

LiveSpec == LiveInit /\ [][LiveNext]_vars /\ LiveFairness

(***************************************************************************)
(* Literal escaping: text_utils.rs                                         *)
(***************************************************************************)
\* A text is the sequence of its bytes.  The bytes with an escape of their
\* own are named by their code; the others stand for themselves.
BEL == "0x07"
BS == "0x08"
TAB == "0x09"
LF == "0x0a"
VT == "0x0b"
FF == "0x0c"
CR == "0x0d"
SPACE == " "
BACKSLASH == "\\"
QUOTE == "'"
\* a byte of a multi-byte (non-ASCII) character
NON_ASCII == "0xc3"

Bytes == {BEL, BS, TAB, LF, VT, FF, CR, SPACE, BACKSLASH, QUOTE, "a", NON_ASCII}

\* text_utils.rs:9-22  the match on bytes[pos]: Some(letter) or None
special(byte) ==
    CASE byte = BEL -> <<"a">>
      [] byte = BS -> <<"b">>
      [] byte = TAB -> <<"t">>
      [] byte = LF -> <<"n">>
      [] byte = VT -> <<"v">>
      [] byte = FF -> <<"f">>
      [] byte = CR -> <<"r">>
      [] byte = SPACE -> <<SPACE>>
      [] byte = BACKSLASH -> <<BACKSLASH>>
      [] byte = QUOTE -> <<QUOTE>>
      [] OTHER -> <<>>

\* a first escape that starts the owned buffer empty
owned_prefix_dropped(bytes, pos) == <<>>

\* text_utils.rs:25-27  owned = Some(bytes[0..pos].to_owned())
owned_prefix(bytes, pos) == SubSeq(bytes, 1, pos - 1)

\* text_utils.rs:8-38  the loop from index pos on (1-based); owned is None
\* (<<>>) or Some(buffer) (<<buffer>>)
RECURSIVE pg_escape_loop(_, _, _)
pg_escape_loop(bytes, pos, owned) ==
    IF pos > Len(bytes) THEN owned
    ELSE LET s == special(bytes[pos])
         IN  IF s # <<>>
             THEN LET buffer == IF owned = <<>> THEN owned_prefix(bytes, pos)
                                ELSE owned[1]
                      escape == IF s[1] = QUOTE THEN QUOTE ELSE BACKSLASH
                  IN  pg_escape_loop(bytes, pos + 1,
                                     <<buffer \o <<escape, s[1]>>>>)
             ELSE IF owned # <<>>
             THEN pg_escape_loop(bytes, pos + 1, <<owned[1] \o <<bytes[pos]>>>>)
             ELSE pg_escape_loop(bytes, pos + 1, owned)

\* text_utils.rs:3-46
pg_escape(t) ==
    LET owned == pg_escape_loop(t, 1, <<>>)
    IN  IF owned # <<>> THEN owned[1] ELSE t

(***************************************************************************)
(* The SQL compiler: api/sql.rs                                            *)
(*                                                                         *)
(* A rendered SqlWhere / SqlSort is the sequence of the pieces it is       *)
(* formatted from: the fixed pieces of the format strings, and the bytes   *)
(* of the interpolated texts one by one.  Every single quote is a piece of *)
(* its own.                                                                *)
(***************************************************************************)
\* [T]::join: the parts with sep between them
RECURSIVE join(_, _)
join(parts, sep) ==
    IF parts = <<>> THEN <<>>
    ELSE IF Len(parts) = 1 THEN parts[1]
    ELSE parts[1] \o sep \o join(Tail(parts), sep)

RECURSIVE trim_end_matches(_, _)
trim_end_matches(t, c) ==
    IF t # <<>> /\ Last(t) = c
    THEN trim_end_matches(SubSeq(t, 1, Len(t) - 1), c)
    ELSE t

\* str::trim_matches: every leading and trailing occurrence of c removed
trim_matches(t, c) == trim_end_matches(trim_start_matches(t, c), c)

\* the two hex digits of a byte
Hex(byte) ==
    CASE byte = BEL -> "07" [] byte = BS -> "08" [] byte = TAB -> "09"
      [] byte = LF -> "0a" [] byte = VT -> "0b" [] byte = FF -> "0c"
      [] byte = CR -> "0d" [] byte = SPACE -> "20" [] byte = BACKSLASH -> "5c"
      [] byte = QUOTE -> "27" [] byte = "a" -> "61" [] byte = "b" -> "62"
      [] byte = NON_ASCII -> "c3"

\* base64::encode: a text over the base64 alphabet that is a function of
\* the bytes (it stands here as their digits, group by group)
encode(bytes) == [i \in 1..Len(bytes) |-> Hex(bytes[i])]

\* sql.rs:210  format!("{:x}", md5(..)): hex digits that are a function of
\* the bytes digested
md5(bytes) == <<"md5:">> \o [i \in 1..Len(bytes) |-> Hex(bytes[i])]

\* format!("{}", b) of a bool
BoolText(b) == IF b THEN "true" ELSE "false"

\* sql.rs:12-21  From<InFilterValue>
SqlWhereFromInFilterValue(v) ==
    CASE v.t = "BinaryVal" -> <<QUOTE>> \o encode(v.bytes) \o <<QUOTE>>
      [] v.t = "BoolVal" -> <<BoolText(v.b)>>
      [] v.t = "IntVal" -> <<ToString(v.n)>>
      [] v.t = "StringVal" -> <<QUOTE>> \o v.s \o <<QUOTE>>

\* sql.rs:23-30  From<FragmentValueType>
SqlWhereFromFragmentValueType(v) ==
    CASE v.t = "IntVal" -> <<ToString(v.n)>>
      [] v.t = "StringVal" -> <<QUOTE>> \o v.s \o <<QUOTE>>

\* sql.rs:31-38  From<FragmentType>
SqlWhereFromFragmentType(v) ==
    CASE v = "Integer" -> "integer"
      [] v = "String" -> "string"

\* sql.rs:40-50  From<Operation>
SqlWhereFromOperation(v) ==
    CASE v = "Eq" -> "="
      [] v = "Gt" -> ">"
      [] v = "Gte" -> ">="
      [] v = "Lt" -> "<"
      [] v = "Lte" -> "<="

\* sql.rs:99-122  From<InItemFilter>
SqlWhereFromInItemFilter(v) ==
    CASE v.item = "Fragment" ->
            <<"fragment_", ToString(v.position), "_",
              SqlWhereFromFragmentType(v.fragment_type)>>
      [] v.item = "Key" -> <<"key">>
      [] v.item = "Value" /\ v.value_type = "Binary" -> <<"value_binary">>
      [] v.item = "Value" /\ v.value_type = "Bool" -> <<"value_bool">>
      [] v.item = "Value" /\ v.value_type = "Integer" -> <<"value_integer">>
      [] v.item = "Value" /\ v.value_type = "String" -> <<"value_string">>
      [] v.item = "Address" -> <<"address">>

\* sql.rs:130-139  one row of values: "('" v1 "','" v2 ... "')"
InRow(row) ==
    <<"(", QUOTE>>
        \o join([j \in 1..Len(row) |->
                    pg_escape(trim_matches(SqlWhereFromInFilterValue(row[j]),
                                           QUOTE))],
                <<QUOTE, ",", QUOTE>>)
        \o <<QUOTE, ")">>

\* sql.rs:124-159  From<InFilter>
SqlWhereFromInFilter(v) ==
    IF Len(v.properties) > 0 /\ Len(v.values) > 0
    THEN <<"((">>
            \o join([i \in 1..Len(v.properties) |->
                        pg_escape(SqlWhereFromInItemFilter(v.properties[i]))],
                    <<",">>)
            \o <<") IN (">>
            \o join([i \in 1..Len(v.values) |-> InRow(v.values[i])], <<",">>)
            \o <<"))">>
    ELSE <<"1=1">>

\* sql.rs:161-171  From<KeyFragmentFilter>
SqlWhereFromKeyFragmentFilter(v) ==
    <<"fragment_", ToString(v.position), "_",
      SqlWhereFromFragmentType(v.fragment_type), " ",
      SqlWhereFromOperation(v.operation), " ">>
        \o SqlWhereFromFragmentValueType(v.value)

\* sql.rs:173-183  From<ValueFragmentFilter>
SqlWhereFromValueFragmentFilter(v) ==
    <<"value_fragment_", ToString(v.position), "_",
      SqlWhereFromFragmentType(v.fragment_type), " ",
      SqlWhereFromOperation(v.operation), " ">>
        \o SqlWhereFromFragmentValueType(v.value)

\* sql.rs:185-189  From<KeyFilter>
SqlWhereFromKeyFilter(v) ==
    <<"key", " ", "=", " ", QUOTE>> \o pg_escape(v.value) \o <<QUOTE>>

\* a Value filter that renders the requested operation for every type
SqlWhereFromValueFilter_any_operation(v) ==
    CASE v.value.t = "Binary" ->
            <<"value_binary", " ", SqlWhereFromOperation(v.operation), " ", QUOTE>>
                \o encode(v.value.bytes)
                \o <<QUOTE, " AND ", "md5(", "value_binary", ")", " ", "=", " ",
                     "md5(", QUOTE>>
                \o encode(v.value.bytes) \o <<QUOTE, ")">>
      [] v.value.t = "String" ->
            <<"value_string", " ", SqlWhereFromOperation(v.operation), " ", QUOTE>>
                \o pg_escape(v.value.s)
                \o <<QUOTE, " AND ", "md5(", "value_string", ")", " ", "=", " ",
                     QUOTE>>
                \o md5(v.value.s) \o <<QUOTE>>
      [] v.value.t = "Bool" ->
            <<"value_bool", " ", SqlWhereFromOperation(v.operation), " ",
              BoolText(v.value.b),
              " AND ", "value_bool", " IS NOT NULL">>
      [] v.value.t = "Integer" ->
            <<"value_integer", " ", SqlWhereFromOperation(v.operation), " ",
              ToString(v.value.n)>>

\* sql.rs:191-223  From<ValueFilter>
SqlWhereFromValueFilter(v) ==
    CASE v.value.t = "Binary" ->
            <<"value_binary", " ", "=", " ", QUOTE>> \o encode(v.value.bytes)
                \o <<QUOTE, " AND ", "md5(", "value_binary", ")", " ", "=", " ",
                     "md5(", QUOTE>>
                \o encode(v.value.bytes) \o <<QUOTE, ")">>
      [] v.value.t = "String" ->
            <<"value_string", " ", "=", " ", QUOTE>> \o pg_escape(v.value.s)
                \o <<QUOTE, " AND ", "md5(", "value_string", ")", " ", "=", " ",
                     QUOTE>>
                \o md5(v.value.s) \o <<QUOTE>>
      [] v.value.t = "Bool" ->
            <<"value_bool", " ", "=", " ", BoolText(v.value.b),
              " AND ", "value_bool", " IS NOT NULL">>
      [] v.value.t = "Integer" ->
            <<"value_integer", " ", SqlWhereFromOperation(v.operation), " ",
              ToString(v.value.n)>>

\* sql.rs:225-229  From<AddressFilter>
SqlWhereFromAddressFilter(v) ==
    <<"address", " ", "=", " ", QUOTE>> \o pg_escape(v.value) \o <<QUOTE>>

RECURSIVE SqlWhereFromRequestFilter(_)

\* an And node that renders its empty child list as an empty pair of
\* parentheses
SqlWhereFromAndFilter_empty_parens(v) ==
    <<"(">>
        \o join([i \in 1..Len(v.children) |->
                    SqlWhereFromRequestFilter(v.children[i])], <<" AND ">>)
        \o <<")">>

\* sql.rs:67-81  From<AndFilter>
SqlWhereFromAndFilter(v) ==
    IF Len(v.children) > 0
    THEN <<"(">>
            \o join([i \in 1..Len(v.children) |->
                        SqlWhereFromRequestFilter(v.children[i])], <<" AND ">>)
            \o <<")">>
    ELSE <<"1=1">>

\* sql.rs:83-97  From<OrFilter>
SqlWhereFromOrFilter(v) ==
    IF Len(v.children) > 0
    THEN <<"(">>
            \o join([i \in 1..Len(v.children) |->
                        SqlWhereFromRequestFilter(v.children[i])], <<" OR ">>)
            \o <<")">>
    ELSE <<"1=1">>

\* sql.rs:52-65  From<RequestFilter>
SqlWhereFromRequestFilter(v) ==
    CASE v.f = "And" -> SqlWhereFromAndFilter(v)
      [] v.f = "Or" -> SqlWhereFromOrFilter(v)
      [] v.f = "In" -> SqlWhereFromInFilter(v)
      [] v.f = "Fragment" -> SqlWhereFromKeyFragmentFilter(v)
      [] v.f = "ValueFragment" -> SqlWhereFromValueFragmentFilter(v)
      [] v.f = "Key" -> SqlWhereFromKeyFilter(v)
      [] v.f = "Value" -> SqlWhereFromValueFilter(v)
      [] v.f = "Address" -> SqlWhereFromAddressFilter(v)

\* sql.rs:272-279  From<SortItemDirection>
SqlSortFromSortItemDirection(v) ==
    CASE v = "Asc" -> "ASC"
      [] v = "Desc" -> "DESC"

\* sql.rs:241-270  From<SortItem>
SqlSortFromSortItem(v) ==
    CASE v.item = "Fragment" ->
            <<"fragment_", ToString(v.position), "_",
              SqlWhereFromFragmentType(v.fragment_type), " ",
              SqlSortFromSortItemDirection(v.direction)>>
      [] v.item = "Key" -> <<"key", " ", SqlSortFromSortItemDirection(v.direction)>>
      [] v.item = "Value" -> <<"value", " ", SqlSortFromSortItemDirection(v.direction)>>
      [] v.item = "Address" ->
            <<"address", " ", SqlSortFromSortItemDirection(v.direction)>>
      [] v.item = "Base" -> <<"uid", " ", SqlSortFromSortItemDirection(v.direction)>>
      [] v.item = "ValueFragment" ->
            <<"value_fragment_", ToString(v.position), "_",
              SqlWhereFromFragmentType(v.fragment_type), " ",
              SqlSortFromSortItemDirection(v.direction)>>

\* sql.rs:231-239  From<RequestSort>
SqlSortFromRequestSort(v) ==
    join([i \in 1..Len(v) |-> SqlSortFromSortItem(v[i])], <<",">>)

\* ---- the filters and sort lists a request may carry ----
LiteralChars == {"a", QUOTE, SPACE}
Literals == SeqsUpTo(LiteralChars, MaxLitLen)
Operations == {"Eq", "Gt", "Gte", "Lt", "Lte"}
FragmentTypes == {"String", "Integer"}
ValueTypes == {"String", "Integer", "Binary", "Bool"}
\* the first and the last fragment position
Positions == {0, 10}
IntLiterals == {-1, 5}

\* a fragment literal of the type the fragment is declared with
FragmentValues(fragment_type) ==
    IF fragment_type = "String"
    THEN {[t |-> "StringVal", s |-> l] : l \in Literals}
    ELSE {[t |-> "IntVal", n |-> n] : n \in IntLiterals}

FragmentFilters(name) ==
    UNION {[f : {name}, position : Positions, fragment_type : {ft},
            operation : Operations, value : FragmentValues(ft)]
              : ft \in FragmentTypes}

ValueDatas ==
    {[t |-> "String", s |-> l] : l \in Literals}
        \cup {[t |-> "Integer", n |-> n] : n \in IntLiterals}
        \cup {[t |-> "Bool", b |-> b] : b \in BOOLEAN}
        \cup {[t |-> "Binary", bytes |-> bs] : bs \in {<<>>, <<"a", QUOTE>>}}

\* a Value filter is declared with the type of the value it carries
ValueFilters ==
    {[f |-> "Value", value_type |-> d.t, operation |-> o, value |-> d]
        : d \in ValueDatas, o \in Operations}

Leaves ==
    {[f |-> "Key", value |-> l] : l \in Literals}
        \cup {[f |-> "Address", value |-> l] : l \in Literals}
        \cup ValueFilters
        \cup FragmentFilters("Fragment")
        \cup FragmentFilters("ValueFragment")

InItems ==
    {[item |-> "Key"], [item |-> "Address"],
     [item |-> "Fragment", position |-> 0, fragment_type |-> "String"],
     [item |-> "Fragment", position |-> 10, fragment_type |-> "Integer"]}
        \cup {[item |-> "Value", value_type |-> vt] : vt \in ValueTypes}

\* the type of the values an In property is compared with
PropertyType(p) ==
    CASE p.item \in {"Key", "Address"} -> "String"
      [] p.item = "Fragment" -> p.fragment_type
      [] p.item = "Value" -> p.value_type

StringPool ==
    <<<<"a">>, <<"b">>, <<"a", "b">>, <<>>, <<QUOTE, "a">>, <<"a", QUOTE>>,
      <<"a", SPACE, "b">>, <<QUOTE>>, <<"a", QUOTE, "b">>>>
IntPool == <<5, -1, 0>>

\* the idx-th value of the type of property p
InValue(p, idx) ==
    CASE PropertyType(p) = "String" ->
            [t |-> "StringVal", s |-> StringPool[(idx % Len(StringPool)) + 1]]
      [] PropertyType(p) = "Integer" ->
            [t |-> "IntVal", n |-> IntPool[(idx % Len(IntPool)) + 1]]
      [] PropertyType(p) = "Bool" -> [t |-> "BoolVal", b |-> idx % 2 = 0]
      [] PropertyType(p) = "Binary" ->
            [t |-> "BinaryVal",
             bytes |-> IF idx % 2 = 0 THEN <<"a", QUOTE>> ELSE <<>>]

\* the In filter over the properties ps with r rows, every row as long as
\* ps, filled with consecutive values from the k-th on
InFilterOf(ps, r, k) ==
    [f |-> "In", properties |-> ps,
     values |-> [i \in 1..r |->
                    [j \in 1..Len(ps) |->
                        InValue(ps[j], k + (i - 1) * Len(ps) + (j - 1))]]]

InFilters ==
    {InFilterOf(ps, r, k) : ps \in SeqsUpTo(InItems, MaxInSize),
                            r \in 0..MaxInSize, k \in 0..Len(StringPool) - 1}

\* the leaves And / Or nodes are built over
ChildLeaves ==
    {[f |-> "Key", value |-> <<"a">>], [f |-> "Address", value |-> <<QUOTE>>]}

\* the And / Or nodes nested at most d deep: children are leaves, and at
\* most one child of a node is a node itself
RECURSIVE Nodes(_)
Nodes(d) ==
    IF d = 1
    THEN [f : {"And", "Or"}, children : SeqsUpTo(ChildLeaves, MaxChildren)]
    ELSE Nodes(d - 1)
            \cup UNION {{[f |-> c, children |-> [ch EXCEPT ![i] = n]]
                            : c \in {"And", "Or"}, i \in 1..Len(ch),
                              n \in Nodes(d - 1)}
                          : ch \in SeqsUpTo(ChildLeaves, MaxChildren)}

\* the filters nested at most d deep
Filters(d) == Leaves \cup InFilters \cup Nodes(d)

Directions == {"Asc", "Desc"}
SortItems ==
    [item : {"Fragment", "ValueFragment"}, position : Positions,
     fragment_type : FragmentTypes, direction : Directions]
        \cup [item : {"Key", "Value", "Address", "Base"}, direction : Directions]

Texts == SeqsUpTo(Bytes, MaxTextLen)

\* text_utils.rs:3-46  a text is escaped
PgEscape ==
    /\ cpc = "idle"
    /\ text' \in Texts
    /\ escaped' = pg_escape(text')
    /\ cpc' = "escaped"
    /\ UNCHANGED <<filter, where_sql, sort, sort_sql, raw_filter, node,
                   daemon_vars, query_vars, codec_vars, search_vars>>

\* data_entries.rs:118-121  the filter of a request is rendered
CompileWhere ==
    /\ cpc = "idle"
    /\ \E f \in Filters(MaxDepth) :
        /\ filter' = <<f>>
        /\ where_sql' = SqlWhereFromRequestFilter(f)
    /\ cpc' = "where"
    /\ UNCHANGED <<text, escaped, sort, sort_sql, raw_filter, node,
                   daemon_vars, query_vars, codec_vars, search_vars>>

\* data_entries.rs:123-127  the sort list of a request is rendered
CompileSort ==
    /\ cpc = "idle"
    /\ sort' \in SeqsUpTo(SortItems, MaxSortItems)
    /\ sort_sql' = SqlSortFromRequestSort(sort')
    /\ cpc' = "sort"
    /\ UNCHANGED <<text, escaped, filter, where_sql, raw_filter, node,
                   daemon_vars, query_vars, codec_vars, search_vars>>

CompileNext ==
    \/ PgEscape
    \/ CompileWhere
    \/ CompileSort

CompileInit ==
    /\ DaemonIdle
    /\ QueryIdle
    /\ de_versions = {}
    /\ history_keys = {}
    /\ CodecIdle
    /\ CompileIdle
    /\ SearchIdle

CompileSpec == CompileInit /\ [][CompileNext]_vars

(***************************************************************************)
(* Properties of the reconciler                                            *)
(***************************************************************************)
EventHeights(ups) ==
    {ups[1][i].height : i \in 1..Len(ups[1])}
        \cup {ups[2][i].height : i \in 1..Len(ups[2])}

HasEvents(ups) == Len(ups[1]) > 0 \/ Len(ups[2]) > 0

\* C1 (as claimed): at the end of an iteration whose fetched range holds at
\* least one event (appends, removals or both), last_handled_height is the
\* maximum height among the events of the range.
C1_WatermarkIsMaxEventHeight ==
    (pc = "tail" /\ HasEvents(updates)) =>
        /\ last_handled_height \in EventHeights(updates)
        /\ \A h \in EventHeights(updates) : h <= last_handled_height

\* the last append the batch carries for (address, key)
LastAppend(ups, address, key) ==
    LET idx == {i \in 1..Len(ups[1]) :
                    ups[1][i].address = address /\ ups[1][i].key = key}
    IN  ups[1][CHOOSE i \in idx : \A j \in idx : j <= i]

Appended(ups, address, key) ==
    \E i \in 1..Len(ups[1]) :
        ups[1][i].address = address /\ ups[1][i].key = key

\* C2 (as claimed): when the reconciler records an append for a pair that
\* already has a current row, the row of that pair afterwards carries the
\* newly appended value and height.
C2_AppendSupersedesCurrent ==
    [][(pc = "insert" /\ pc' = "delete") =>
        \A a \in Addresses, k \in Keys :
            (HasRow(data_entries, a, k) /\ Appended(updates, a, k)) =>
                \E r \in data_entries' :
                    /\ r.address = a /\ r.key = k
                    /\ r.value = LastAppend(updates, a, k).value
                    /\ r.height = LastAppend(updates, a, k).height]_vars

\* C3 (as claimed): between iterations, and in the state a crash or a
\* fatal error leaves behind, no stored row belongs to a batch whose
\* watermark was not written: every row's height is at most
\* last_handled_height.
C3_RowsMatchWatermark ==
    pc \in {"loop", "crashed", "halted"} =>
        \A r \in data_entries : r.height <= last_handled_height

C5_FailedFetchIsEmptyRange ==
    [][/\ (fetch_failed /\ pc \in {"insert", "delete", "set_height", "tail"}) =>
            /\ data_entries' = data_entries
            /\ last_handled_height' = last_handled_height
            /\ pc' # "halted"
       /\ (fetch_failed /\ pc = "tail") =>
            /\ pc' = "loop"
            /\ slept' = BACKOFF_SECS
       /\ (fetch_failed /\ pc = "loop" /\ pc' = "fetch") =>
            /\ from_height' = from_height
            /\ to_height' = to_height
            /\ fetch_failed']_vars

C5_Witness ==
    /\ fetch_failed
    /\ pc = "fetch"
    /\ slept = BACKOFF_SECS

BatchWrites == {"insert_entries", "delete_entries", "set_last_handled_height"}

\* C6: an error from insert_entries, delete_entries or
\* set_last_handled_height stops the loop: it is halted, nothing is written
\* or fetched afterwards, and last_handled_height still holds the value read
\* at the start of the failing iteration, below the failing range.
C6_StoreErrorHaltsLoop ==
    [][/\ (store_error' \in BatchWrites) =>
            /\ pc' = "halted"
            /\ last_handled_height' = lhh_read'
            /\ last_handled_height' < from_height'
       /\ (store_error \in BatchWrites) =>
            UNCHANGED daemon_vars]_vars

C6_Witness ==
    /\ pc = "halted"
    /\ store_error = "set_last_handled_height"
    /\ data_entries # {}

\* C22 (as claimed): at the start of every iteration the requested range
\* is from_height = max(min_height, last_handled_height + 1) and
\* to_height = from_height + blocks_per_request - 1, for every stored
\* watermark, every configured min_height and every configured
\* blocks_per_request, 0 and values near the u32 limit included.
C22_RangeFromWatermark ==
    /\ store_error # "arithmetic_overflow"
    /\ pc = "fetch" =>
        /\ from_height = Max(min_height, lhh_read + 1)
        /\ to_height = from_height + blocks_per_request - 1

\* C27: last_handled_height never decreases: over iterations with
\* successful, empty and failed fetches, every value written by
\* set_last_handled_height is strictly greater than the value read at the
\* start of its iteration (the upstream returning only events whose heights
\* lie in the requested range).
C27_WatermarkNeverDecreases ==
    [][/\ last_handled_height' >= last_handled_height
       /\ (pc = "set_height" /\ pc' = "tail"
                /\ LastUpdatedHeight(updates) # <<>>) =>
            /\ last_handled_height' = LastUpdatedHeight(updates)[1]
            /\ last_handled_height' > lhh_read
            /\ lhh_read = last_handled_height]_vars

C27_Witness ==
    /\ pc = "tail"
    /\ lhh_read > 0
    /\ last_handled_height > lhh_read
    /\ LastUpdatedHeight(updates) = <<last_handled_height>>

\* the heights at which the batch appends to, and removes, (address, key)
AppendHeights(ups, address, key) ==
    {ups[1][i].height : i \in {j \in 1..Len(ups[1]) :
        ups[1][j].address = address /\ ups[1][j].key = key}}
RemovalHeights(ups, address, key) ==
    {ups[2][i].height : i \in {j \in 1..Len(ups[2]) :
        ups[2][j].address = address /\ ups[2][j].key = key}}

\* C25 (as claimed): after a fetched range is applied, for every pair
\* touched in the range the store agrees with the last event of the pair in
\* height order: the pair is present with that event's value when it is an
\* append and absent when it is a removal; in particular a removal followed
\* by a later append inside one range leaves the pair present.
C25_StoreAgreesWithLastEvent ==
    pc = "tail" =>
        \A a \in Addresses, k \in Keys :
            LET app == AppendHeights(updates, a, k)
                rem == RemovalHeights(updates, a, k)
            IN  /\ (app # {} /\ \A h \in rem : \E g \in app : h < g) =>
                    \E r \in data_entries :
                        /\ r.address = a /\ r.key = k
                        /\ r.value = LastAppend(updates, a, k).value
                /\ (rem # {} /\ \A g \in app : \E h \in rem : g < h) =>
                    ~ HasRow(data_entries, a, k)

\* the store after the two write statements of an iteration (daemon.rs:42-57)
Applied(table, ups) ==
    LET inserted == IF Len(ups[1]) > 0 THEN insert_entries(table, ups[1])
                    ELSE table
    IN  IF Len(ups[2]) > 0 THEN delete_entries(inserted, ups[2]) ELSE inserted

\* C23: re-applying a batch is safe: when the process stops after the
\* inserts, or after the inserts and the deletions, of a batch and restarts
\* from the stored watermark, fetching and applying the same range again
\* leaves the store as one application of the range leaves it.
C23_ReapplyingBatchIsSafe ==
    pc = "insert" =>
        LET once == Applied(data_entries, updates)
            after_insert == IF Len(updates[1]) > 0
                            THEN insert_entries(data_entries, updates[1])
                            ELSE data_entries
        IN  /\ Applied(after_insert, updates) = once
            /\ Applied(once, updates) = once

\* the batch of an iteration that had stopped before its watermark was
\* written has been fetched again
C23_Witness ==
    /\ pc = "insert"
    /\ last_handled_height = 0
    /\ Len(updates[1]) > 0
    /\ updates[1][1] \in data_entries
    /\ store_error = "none"

\* updates.rs:156-158  the block carries an event of an indexable key
HasIndexableEvent(block) ==
    \E i \in 1..Len(block) : is_suitable_for_index(block[i].key)

\* C26: progress: when the upstream holds an indexable event at a height h
\* above the watermark and fetches succeed again and again, the watermark
\* eventually reaches h, also when h lies more than blocks_per_request above
\* the watermark with empty heights in between.
C26_WatermarkReachesEveryEvent ==
    \A h \in 1..MaxChainLen :
        (/\ h <= Len(chain)
         /\ HasIndexableEvent(chain[h])
         /\ last_handled_height < h) ~> (last_handled_height >= h)

\* both fragment columns of the position are null
NoFragmentAt(row, position) ==
    /\ row.fragments[position].integer = <<>>
    /\ row.fragments[position].string = <<>>

\* C28: the fragment columns of a stored row form a gap-free prefix: at each
\* position at most one of fragment_i_string and fragment_i_integer is
\* non-null, and a position with both null is followed by such positions
\* only; also for a fragment written as an integer whose text is no 32-bit
\* integer.
C28_FragmentsFormGapFreePrefix ==
    \A row \in data_entries :
        \A i \in 0..FRAGMENT_COLUMNS - 1 :
            /\ \/ row.fragments[i].integer = <<>>
               \/ row.fragments[i].string = <<>>
            /\ NoFragmentAt(row, i) =>
                   \A j \in (i + 1)..(FRAGMENT_COLUMNS - 1) : NoFragmentAt(row, j)

(***************************************************************************)
(* Properties of the point-in-time request path                            *)
(***************************************************************************)
BothPresent(m) == m.height # <<>> /\ m.block_timestamp # <<>>

Parsed == {"resolve", "lookup", "done"}

\* C7 (as claimed): with both height and block_timestamp present,
\* construction fails with code 950201 and parameter
\* "height, block_timestamp"; with at most one present it succeeds.
C7_BothPresentNamed ==
    (qpc \in Parsed \/ outcome = "validation_error") =>
        IF BothPresent(query)
        THEN /\ ~ hp.ok
             /\ hp.code = 950201
             /\ hp.parameter = "height, block_timestamp"
        ELSE hp.ok

\* a height text that is a decimal integer with an optional sign
IsIntegerText(s) ==
    /\ Len(s) > 0
    /\ \A i \in 2..Len(s) : s[i] \in DigitChars
    /\ s[1] \in DigitChars \/ (s[1] \in {"+", "-"} /\ Len(s) > 1)

WellFormed(m) ==
    /\ m.height # <<>> => IsIntegerText(m.height[1])
    /\ m.block_timestamp # <<>> => m.block_timestamp[1].instant # <<>>

\* C7 (amended): with both parameters present construction always fails
\* with code 950201 and yields no HistoricalRequestParams, so the resolver
\* never sees both bounds; the error names "height, block_timestamp" when
\* both values parse; with at most one present, construction succeeds when
\* the present value parses.
C7_BothPresentRejected ==
    (qpc \in Parsed \/ outcome = "validation_error") =>
        /\ BothPresent(query) => (~ hp.ok /\ hp.code = 950201)
        /\ (BothPresent(query) /\ WellFormed(query)) =>
               hp.parameter = "height, block_timestamp"
        /\ hp.ok => ~ (hp.height # <<>> /\ hp.block_timestamp # <<>>)
        /\ (~ BothPresent(query) /\ WellFormed(query)) => hp.ok
        /\ qpc \in {"resolve", "lookup"} => hp.ok

C7_Witness ==
    /\ qpc = "done"
    /\ BothPresent(query)
    /\ WellFormed(query)
    /\ outcome = "validation_error"
    /\ hp.parameter = "height, block_timestamp"

ExactlyOne(p) == (p.height = <<>>) # (p.block_timestamp = <<>>)

\* the history entry r is not later than the requested bound
AsOf(r, p) ==
    IF p.height # <<>> THEN r.height <= p.height[1]
    ELSE r.block_timestamp <= p.block_timestamp[1]

\* o is a later version than r, ties broken by the row identifier
LaterThan(o, r, p) ==
    IF p.height # <<>>
    THEN \/ o.height > r.height
         \/ (o.height = r.height /\ o.data_entry_uid > r.data_entry_uid)
    ELSE \/ o.block_timestamp > r.block_timestamp
         \/ (o.block_timestamp = r.block_timestamp
                /\ o.data_entry_uid > r.data_entry_uid)

\* C8 (as claimed): with exactly one bound, the identifiers returned are,
\* for every requested pair, the entry with the greatest height (or
\* timestamp) not above the bound, the greatest identifier among ties;
\* nothing for a pair without such an entry, nothing of other pairs.
C8_ResolvesLatestNotAboveBound ==
    (qpc \in {"lookup", "done"} /\ hp.ok /\ ExactlyOne(hp)) =>
        /\ \A i \in 1..Len(entries) :
            LET cand == {r \in history_keys :
                            /\ r.address = entries[i].address
                            /\ r.key = entries[i].key
                            /\ AsOf(r, hp)}
            IN  \A r \in cand :
                    (r.data_entry_uid \in uids)
                        <=> (\A o \in cand : ~ LaterThan(o, r, hp))
        /\ \A u \in uids :
            \E r \in history_keys :
                /\ r.data_entry_uid = u
                /\ InEntries(r, entries)
                /\ AsOf(r, hp)

\* C9: without height and block_timestamp the resolver returns no
\* identifier and runs no statement against the historical index, whatever
\* the list of pairs.
C9_NoParamsNoHistoryRead ==
    (qpc \in {"lookup", "done"} /\ query = NoParams) =>
        /\ uids = {}
        /\ history_reads = 0

C9_Witness ==
    /\ qpc = "lookup"
    /\ query = NoParams
    /\ \E r \in history_keys : InEntries(r, entries)

\* the rows of the requested pairs that are current and carry a value
CurrentRows(es) ==
    {r \in de_versions :
        r.superseded_by = MAX_UID /\ r.value # <<>> /\ InEntries(r, es)}

\* C24: the validation error of a point-in-time parameter names the
\* offending parameter: an unparsable block_timestamp is reported with
\* parameter "block_timestamp", an unparsable height with parameter "height",
\* each with code 950201 and the parse failure as reason.
C24_ErrorNamesOffendingParameter ==
    (qpc = "done" /\ outcome = "validation_error") =>
        /\ (/\ query.block_timestamp # <<>>
            /\ ~ ParseRfc3339(query.block_timestamp[1]).ok) =>
                /\ hp.parameter = "block_timestamp"
                /\ hp.code = 950201
                /\ hp.reason = ParseRfc3339(query.block_timestamp[1]).reason
        /\ (/\ query.height # <<>>
            /\ ~ ParseI64(query.height[1]).ok
            /\ \/ query.block_timestamp = <<>>
               \/ ParseRfc3339(query.block_timestamp[1]).ok) =>
                /\ hp.parameter = "height"
                /\ hp.code = 950201
                /\ hp.reason = ParseI64(query.height[1]).reason

\* C29: the multi-get response has exactly one element per requested pair, in
\* request order: the stored entry of the pair, or null when there is none;
\* also when the same pair occurs more than once in the request.
C29_OneElementPerRequestedPair ==
    (qpc = "done" /\ outcome = "ok") =>
        /\ Len(response) = Len(entries)
        /\ \A i \in 1..Len(entries) :
               IF RowsOf(rows, entries[i]) = {} THEN response[i] = <<>>
               ELSE /\ response[i] # <<>>
                    /\ response[i][1] \in RowsOf(rows, entries[i])

Separators == {STRING_SEPARATOR, INTEGER_SEPARATOR}

\* the fragments a key is written as: each runs from a separator to the
\* character before the next separator
RECURSIVE SplitAtSeparators(_)
SplitAtSeparators(s) ==
    IF s = <<>> THEN <<>>
    ELSE LET n == 1 + RunLength(Tail(s), KeyChars \ Separators)
         IN  <<SubSeq(s, 1, n)>> \o SplitAtSeparators(SubSeq(s, n + 1, Len(s)))

\* `$`+text, or `#`+optionally signed digits of a 32-bit integer
WellFormedFragment(fr) ==
    \/ /\ Head(fr) = STRING_SEPARATOR
       /\ \A i \in 2..Len(fr) : fr[i] \in WordChars
    \/ /\ Head(fr) = INTEGER_SEPARATOR
       /\ LET digits == IF Len(fr) > 1 /\ fr[2] = "-"
                        THEN SubSeq(fr, 3, Len(fr)) ELSE Tail(fr)
          IN  /\ digits # <<>>
              /\ \A i \in 1..Len(digits) : digits[i] \in DigitChars
              /\ ~ ExceedsI32(digits)

WellFormedKey(key) ==
    /\ key # <<>>
    /\ Head(key) \in Separators
    /\ \A i \in 1..Len(SplitAtSeparators(key)) :
           WellFormedFragment(SplitAtSeparators(key)[i])

\* the typed value a well-formed fragment denotes
FragmentValue(fr) ==
    IF Head(fr) = STRING_SEPARATOR
    THEN [integer |-> <<>>, string |-> <<Tail(fr)>>]
    ELSE [integer |-> <<IF fr[2] = "-"
                        THEN 0 - DecimalValue(SubSeq(fr, 3, Len(fr)))
                        ELSE DecimalValue(Tail(fr))>>,
          string |-> <<>>]

NullFragment == [integer |-> <<>>, string |-> <<>>]

\* C11 (as claimed): a key made of n well-formed fragments decodes, for
\* every n from 1 to 11, to the typed value of its fragment at each position
\* 0..n-1 and to null at positions n..10; for n > 11 the first 11 fragments
\* are decoded and the rest dropped.
C11_DecodesUpToElevenFragments ==
    pc = "insert" =>
        \A i \in 1..Len(updates[1]) :
            LET row == updates[1][i]
                frs == SplitAtSeparators(row.key)
            IN  WellFormedKey(row.key) =>
                    \A position \in 0..10 :
                        row.fragments[position] =
                            IF position < Len(frs)
                            THEN FragmentValue(frs[position + 1])
                            ELSE NullFragment

\* a key that does not start with a separator, or that the grammar cannot
\* tokenize
NotSuitable(key) ==
    \/ key = <<>>
    \/ Head(key) \notin Separators
    \/ ~ WellFormedFragment(Head(SplitAtSeparators(key)))

\* C12 (as claimed): an append event whose key is not suitable for indexing
\* is still stored: after the range is applied the store holds a row for its
\* (address, key) with the event's value and every fragment column null.
C12_UnsuitableKeyStoredWithNullFragments ==
    pc = "tail" =>
        \A h \in from_height..Min(to_height, Len(chain)) :
            \A i \in 1..Len(chain[h]) :
                LET de == chain[h][i]
                IN  (de.value # <<>> /\ NotSuitable(de.key)) =>
                        \E r \in data_entries :
                            /\ r.address = de.address
                            /\ r.key = de.key
                            /\ r.value = de.value[1]
                            /\ \A position \in 0..10 :
                                   r.fragments[position] = NullFragment

(***************************************************************************)
(* Properties of the SQL compiler                                          *)
(***************************************************************************)
\* the byte an escaped letter stands for inside a quoted literal
Unescape(c) ==
    CASE c = "a" -> BEL [] c = "b" -> BS [] c = "t" -> TAB [] c = "n" -> LF
      [] c = "v" -> VT [] c = "f" -> FF [] c = "r" -> CR [] OTHER -> c

\* A SQL string tokenizer over a rendered text, from piece i on: a quote
\* opens a literal; inside it a backslash escapes the next piece, two quotes
\* stand for one, and a single quote closes it.  Yields the literals read,
\* and whether the text ends outside a literal.
RECURSIVE ReadLiterals(_, _, _, _, _)
ReadLiterals(sql, i, inside, cur, acc) ==
    IF i > Len(sql) THEN [closed |-> ~ inside, literals |-> acc]
    ELSE IF ~ inside
         THEN ReadLiterals(sql, i + 1, sql[i] = QUOTE, <<>>, acc)
    ELSE IF sql[i] = BACKSLASH /\ i < Len(sql)
         THEN ReadLiterals(sql, i + 2, TRUE, Append(cur, Unescape(sql[i + 1])), acc)
    ELSE IF sql[i] = QUOTE /\ i < Len(sql) /\ sql[i + 1] = QUOTE
         THEN ReadLiterals(sql, i + 2, TRUE, Append(cur, QUOTE), acc)
    ELSE IF sql[i] = QUOTE
         THEN ReadLiterals(sql, i + 1, FALSE, <<>>, Append(acc, cur))
    ELSE ReadLiterals(sql, i + 1, TRUE, Append(cur, sql[i]), acc)

Tokenize(sql) == ReadLiterals(sql, 1, FALSE, <<>>, <<>>)

\* the text of a value of an In row
ValueText(v) ==
    CASE v.t = "StringVal" -> v.s
      [] v.t = "IntVal" -> <<ToString(v.n)>>
      [] v.t = "BoolVal" -> <<BoolText(v.b)>>
      [] v.t = "BinaryVal" -> encode(v.bytes)

RECURSIVE Flatten(_)
Flatten(ss) == IF ss = <<>> THEN <<>> ELSE Head(ss) \o Flatten(Tail(ss))

\* the values a filter tree holds as quoted literals, in rendering order
RECURSIVE QuotedLiterals(_)
QuotedLiterals(v) ==
    CASE v.f \in {"And", "Or"} ->
            Flatten([i \in 1..Len(v.children) |-> QuotedLiterals(v.children[i])])
      [] v.f = "In" ->
            IF Len(v.properties) = 0 THEN <<>>
            ELSE Flatten([i \in 1..Len(v.values) |->
                            [j \in 1..Len(v.values[i]) |-> ValueText(v.values[i][j])]])
      [] v.f \in {"Fragment", "ValueFragment"} ->
            IF v.value.t = "StringVal" THEN <<v.value.s>> ELSE <<>>
      [] v.f \in {"Key", "Address"} -> <<v.value>>
      [] v.f = "Value" ->
            CASE v.value.t = "String" -> <<v.value.s, md5(v.value.s)>>
              [] v.value.t = "Binary" ->
                    <<encode(v.value.bytes), encode(v.value.bytes)>>
              [] OTHER -> <<>>

\* C13 (as claimed): every string literal the compiler places in the
\* rendered SQL is escaped, so no single quote of a user-supplied value
\* closes its literal early: a tokenizer reads exactly as many literals as
\* the filter tree holds, and the text ends outside a literal.
C13_NoLiteralClosedEarly ==
    cpc = "where" =>
        /\ Tokenize(where_sql).closed
        /\ Len(Tokenize(where_sql).literals) = Len(QuotedLiterals(filter[1]))

\* C14 (as claimed): every string value used as a literal in a filter,
\* values of In rows and values that begin or end with a single quote or
\* contain spaces included, reads back from the rendered SQL as itself.
C14_LiteralsReadBack ==
    cpc = "where" =>
        Tokenize(where_sql).literals = QuotedLiterals(filter[1])

\* what a byte is mapped to
EscapeOf(byte) ==
    CASE byte = QUOTE -> <<QUOTE, QUOTE>>
      [] byte = BEL -> <<BACKSLASH, "a">>
      [] byte = BS -> <<BACKSLASH, "b">>
      [] byte = TAB -> <<BACKSLASH, "t">>
      [] byte = LF -> <<BACKSLASH, "n">>
      [] byte = VT -> <<BACKSLASH, "v">>
      [] byte = FF -> <<BACKSLASH, "f">>
      [] byte = CR -> <<BACKSLASH, "r">>
      [] byte = SPACE -> <<BACKSLASH, SPACE>>
      [] byte = BACKSLASH -> <<BACKSLASH, BACKSLASH>>
      [] OTHER -> <<byte>>

\* C15: pg_escape maps its input byte by byte, in order: a single quote to
\* two single quotes; 0x07, 0x08, tab, newline, 0x0b, 0x0c, carriage return,
\* space and backslash to a backslash followed by a, b, t, n, v, f, r, space
\* and backslash; every other byte, non-ASCII ones included, to itself; the
\* empty string to the empty string.
C15_EscapesByteByByte ==
    escaped = Flatten([i \in 1..Len(text) |-> EscapeOf(text[i])])

C15_Witness ==
    /\ cpc = "escaped"
    /\ Len(text) = 2
    /\ text[1] = NON_ASCII
    /\ text[2] = QUOTE
    /\ escaped = <<NON_ASCII, QUOTE, QUOTE>>

ValueColumns == {"value_string", "value_integer", "value_binary", "value_bool"}

ValueColumn(value_type) ==
    CASE value_type = "String" -> "value_string"
      [] value_type = "Integer" -> "value_integer"
      [] value_type = "Binary" -> "value_binary"
      [] value_type = "Bool" -> "value_bool"

OperatorPieces == {"=", ">", ">=", "<", "<="}

OperatorPiece(operation) ==
    CASE operation = "Eq" -> "=" [] operation = "Gt" -> ">"
      [] operation = "Gte" -> ">=" [] operation = "Lt" -> "<"
      [] operation = "Lte" -> "<="

Pieces(sql) == {sql[i] : i \in 1..Len(sql)}

\* C16: a Value filter renders against exactly the one column named by its
\* value type; string and binary comparisons carry an md5 equality conjunct
\* computed from the same literal, boolean comparisons an IS NOT NULL
\* conjunct, and only integer comparisons render an operator other than =.
C16_ValueRendersTypedColumn ==
    (cpc = "where" /\ filter[1].f = "Value") =>
        LET v == filter[1]
            lits == Tokenize(where_sql).literals
        IN  /\ where_sql[1] = ValueColumn(v.value_type)
            /\ Pieces(where_sql) \cap ValueColumns = {ValueColumn(v.value_type)}
            /\ ("md5(" \in Pieces(where_sql)) <=> (v.value_type \in {"String", "Binary"})
            /\ v.value_type = "String" => lits = <<v.value.s, md5(v.value.s)>>
            /\ v.value_type = "Binary" =>
                   lits = <<encode(v.value.bytes), encode(v.value.bytes)>>
            /\ (" IS NOT NULL" \in Pieces(where_sql)) <=> (v.value_type = "Bool")
            /\ Pieces(where_sql) \cap OperatorPieces =
                   IF v.value_type = "Integer"
                   THEN {OperatorPiece(v.operation)}
                   ELSE {"="}

C16_Witness ==
    /\ cpc = "where"
    /\ filter[1].f = "Value"
    /\ filter[1].value_type = "String"
    /\ filter[1].operation = "Gt"
    /\ QUOTE \in Pieces(filter[1].value.s)
    /\ where_sql[3] = "="

\* the parts of a text between the pieces equal to sep
RECURSIVE SplitOn(_, _, _)
SplitOn(t, sep, cur) ==
    IF t = <<>> THEN <<cur>>
    ELSE IF Head(t) = sep THEN <<cur>> \o SplitOn(Tail(t), sep, <<>>)
    ELSE SplitOn(Tail(t), sep, Append(cur, Head(t)))

FragmentTypeName(fragment_type) ==
    IF fragment_type = "String" THEN "string" ELSE "integer"

\* the columns of the fixed schema (data_entries.rs:23-79 and the row
\* identifier)
PhysicalColumns ==
    {<<prefix, ToString(position), "_", type>> :
        prefix \in {"fragment_", "value_fragment_"}, position \in 0..10,
        type \in {"string", "integer"}}
        \cup {<<"key">>, <<"address">>, <<"uid">>}
        \cup {<<c>> : c \in ValueColumns}

\* the column a sort item is to be rendered against
IsColumnOf(column, item) ==
    CASE item.item = "Fragment" ->
            column = <<"fragment_", ToString(item.position), "_",
                       FragmentTypeName(item.fragment_type)>>
      [] item.item = "ValueFragment" ->
            column = <<"value_fragment_", ToString(item.position), "_",
                       FragmentTypeName(item.fragment_type)>>
      [] item.item = "Key" -> column = <<"key">>
      [] item.item = "Address" -> column = <<"address">>
      [] item.item = "Value" -> column \in {<<c>> : c \in ValueColumns}
      [] item.item = "Base" -> column = <<"uid">>

\* C17 (as claimed): compile_sort renders one `<column> <ASC|DESC>` term per
\* sort item, in list order, joined by commas; each term names a physical
\* column of the fixed schema: fragment_{pos}_{type},
\* value_fragment_{pos}_{type}, key, address, a typed value column for
\* Value, the row identifier column for Base; an empty list renders the
\* empty string.
C17_SortTermsNamePhysicalColumns ==
    cpc = "sort" =>
        IF sort = <<>> THEN sort_sql = <<>>
        ELSE LET terms == SplitOn(sort_sql, ",", <<>>)
             IN  /\ Len(terms) = Len(sort)
                 /\ \A i \in 1..Len(sort) :
                        LET term == terms[i]
                            column == SubSeq(term, 1, Len(term) - 2)
                        IN  /\ Len(term) >= 3
                            /\ term[Len(term) - 1] = " "
                            /\ term[Len(term)] =
                                   (IF sort[i].direction = "Asc" THEN "ASC" ELSE "DESC")
                            /\ column \in PhysicalColumns
                            /\ IsColumnOf(column, sort[i])

\* the parts of a rendered text between the pieces equal to sep that lie
\* outside every pair of parentheses
RECURSIVE SplitTopLevel(_, _, _, _)
SplitTopLevel(t, sep, depth, cur) ==
    IF t = <<>> THEN <<cur>>
    ELSE IF Head(t) = sep /\ depth = 0
         THEN <<cur>> \o SplitTopLevel(Tail(t), sep, 0, <<>>)
    ELSE SplitTopLevel(Tail(t), sep,
                       depth + (IF Head(t) = "(" THEN 1
                                ELSE IF Head(t) = ")" THEN -1 ELSE 0),
                       Append(cur, Head(t)))

\* sql is the rendering of the And / Or node v as claimed, and so are the
\* renderings of the nodes below it
RECURSIVE RendersJoined(_, _)
RendersJoined(v, sql) ==
    IF v.f \notin {"And", "Or"} THEN TRUE
    ELSE IF v.children = <<>> THEN sql = <<"1=1">>
    ELSE /\ Len(sql) >= 2
         /\ Head(sql) = "("
         /\ Last(sql) = ")"
         /\ LET parts == SplitTopLevel(SubSeq(sql, 2, Len(sql) - 1),
                                       IF v.f = "And" THEN " AND " ELSE " OR ",
                                       0, <<>>)
            IN  /\ Len(parts) = Len(v.children)
                /\ \A i \in 1..Len(parts) :
                       /\ parts[i] = SqlWhereFromRequestFilter(v.children[i])
                       /\ RendersJoined(v.children[i], parts[i])

\* C18: an And / Or node with children renders as its children's
\* renderings, one per child in child order, joined by " AND " / " OR " and
\* wrapped in one pair of parentheses; with no children it renders as 1=1,
\* at any nesting depth.
C18_AndOrJoinsChildren ==
    cpc = "where" => RendersJoined(filter[1], where_sql)

C18_Witness ==
    /\ cpc = "where"
    /\ filter[1].f = "And"
    /\ Len(filter[1].children) = 2
    /\ filter[1].children[1].f = "Key"
    /\ filter[1].children[2] = [f |-> "Or", children |-> <<>>]
    /\ where_sql = <<"(", "key", " ", "=", " ", QUOTE, "a", QUOTE, " AND ", "1=1", ")">>

\* the tuples of quoted literals a rendered value list holds: a tuple runs
\* from "(" to ")"
RECURSIVE ReadTuples(_, _, _, _, _, _)
ReadTuples(sql, i, inside, cur, tuple, acc) ==
    IF i > Len(sql) THEN acc
    ELSE IF ~ inside
         THEN IF sql[i] = "(" THEN ReadTuples(sql, i + 1, FALSE, <<>>, <<>>, acc)
              ELSE IF sql[i] = ")"
                   THEN ReadTuples(sql, i + 1, FALSE, <<>>, <<>>, Append(acc, tuple))
              ELSE ReadTuples(sql, i + 1, sql[i] = QUOTE, <<>>, tuple, acc)
    ELSE IF sql[i] = BACKSLASH /\ i < Len(sql)
         THEN ReadTuples(sql, i + 2, TRUE, Append(cur, Unescape(sql[i + 1])),
                         tuple, acc)
    ELSE IF sql[i] = QUOTE /\ i < Len(sql) /\ sql[i + 1] = QUOTE
         THEN ReadTuples(sql, i + 2, TRUE, Append(cur, QUOTE), tuple, acc)
    ELSE IF sql[i] = QUOTE
         THEN ReadTuples(sql, i + 1, FALSE, <<>>, Append(tuple, cur), acc)
    ELSE ReadTuples(sql, i + 1, TRUE, Append(cur, sql[i]), tuple, acc)

\* the column an In property names
PropertyColumn(p) ==
    CASE p.item = "Fragment" ->
            <<"fragment_", ToString(p.position), "_",
              FragmentTypeName(p.fragment_type)>>
      [] p.item = "Key" -> <<"key">>
      [] p.item = "Value" -> <<ValueColumn(p.value_type)>>
      [] p.item = "Address" -> <<"address">>

\* the index of the first piece of t equal to x, 0 when there is none
IndexOf(t, x) ==
    IF \E i \in 1..Len(t) : t[i] = x
    THEN CHOOSE i \in 1..Len(t) : t[i] = x /\ \A j \in 1..i - 1 : t[j] # x
    ELSE 0

\* C19 (as claimed): an In filter with p >= 1 properties and r >= 1 rows
\* renders as a tuple membership predicate: the column list holds the p
\* property columns in order, the value list exactly r tuples in row order,
\* each holding its row's values in order; with no properties or no rows it
\* renders as 1=1.
C19_InRendersTupleMembership ==
    (cpc = "where" /\ filter[1].f = "In") =>
        LET v == filter[1]
            k == IndexOf(where_sql, ") IN (")
            tuples == ReadTuples(SubSeq(where_sql, k + 1, Len(where_sql) - 1),
                                 1, FALSE, <<>>, <<>>, <<>>)
        IN  IF Len(v.properties) = 0 \/ Len(v.values) = 0
            THEN where_sql = <<"1=1">>
            ELSE /\ k > 0
                 /\ SubSeq(where_sql, 1, k - 1) =
                        <<"((">> \o join([i \in 1..Len(v.properties) |->
                                            PropertyColumn(v.properties[i])], <<",">>)
                 /\ Last(where_sql) = "))"
                 /\ Len(tuples) = Len(v.values)
                 /\ \A i \in 1..Len(v.values) :
                        /\ Len(tuples[i]) = Len(v.values[i])
                        /\ \A j \in 1..Len(v.values[i]) :
                               tuples[i][j] = ValueText(v.values[i][j])

(***************************************************************************)
(* The filter parser: api/parsing.rs                                       *)
(***************************************************************************)
\* serde_json::Value: an object is the sequence of its members in the order
\* o.keys() yields them
JString(str) == [j |-> "string", s |-> str]
JNumber == [j |-> "number"]
JArray(items) == [j |-> "array", items |-> items]
JObject(members) == [j |-> "object", members |-> members]

\* parsing.rs:48-57, 465-482, 660-674  AppError::ValidationError(.., 950201, ..)
ParseError(parameter, reason) ==
    [ok |-> FALSE, code |-> InvalidParamenterValue, parameter |-> parameter,
     reason |-> reason]

\* parsing.rs:465  val.as_str().unwrap() on a value that is no string
Panicked(parameter) ==
    [ok |-> FALSE, code |-> 0, parameter |-> parameter,
     reason |-> "called Option::unwrap() on a None value"]

\* parsing.rs:504  str::to_lowercase, on the names a request may carry
to_lowercase(name) == IF name = "KEY" THEN "key" ELSE name

\* parsing.rs:38-60  TryInto<QueryKey> for String
QueryKeys ==
    [and |-> "AND", or |-> "OR", in |-> "IN", fragment |-> "FRAGMENT",
     key |-> "KEY", value |-> "VALUE", address |-> "ADDRESS"]
try_into(name) ==
    IF name \in DOMAIN QueryKeys THEN [ok |-> TRUE, key |-> QueryKeys[name]]
    ELSE ParseError("filter", <<name, " is invalid filter key, should be one of: ..">>)

\* parsing.rs:462-484
parse_string_part(param, part, v) ==
    IF v.j # "object"
    THEN ParseError(param, "Invalid value, should be an object.")
    ELSE LET found_at == {i \in 1..Len(v.members) : v.members[i].name = part}
         IN  IF found_at = {}
             THEN ParseError(<<param, ".", part>>, "Missing value.")
             ELSE LET val == v.members[CHOOSE i \in found_at : TRUE].value
                  IN  IF val.j = "string" THEN [ok |-> TRUE, s |-> val.s]
                      ELSE Panicked(<<param, ".", part>>)

\* parsing.rs:486-499  parse_key, parse_value, parse_address
LeafNode ==
    [KEY |-> "Key", VALUE |-> "Value", ADDRESS |-> "Address"]
LeafParam ==
    [KEY |-> "key", VALUE |-> "value", ADDRESS |-> "address"]
parse_leaf(query_key, v) ==
    LET part == parse_string_part(LeafParam[query_key], "value", v)
    IN  IF part.ok
        THEN [ok |-> TRUE, node |-> [f |-> LeafNode[query_key], value |-> part.s]]
        ELSE part

\* parsing.rs:516-529, 566-581, ...  acc.map(..): an Err stays; with nothing
\* accumulated the node `first` is taken; an And / Or accumulated so far is
\* handed on as it is, since n is pushed onto `n.clone().children`, a
\* temporary that is dropped; any other node gives None
accumulate(acc, first, n) ==
    IF ~ acc.ok THEN acc
    ELSE IF acc.node = <<>> THEN [ok |-> TRUE, node |-> <<first>>]
    ELSE IF acc.node[1].f \in {"And", "Or"} THEN acc
    ELSE [ok |-> TRUE, node |-> <<>>]

RECURSIVE parse_filter(_)
RECURSIVE parse_children(_)
RECURSIVE fold(_, _)

\* parsing.rs:507-510  values.map(parse_filter).collect::<Result<Vec<_>, _>>():
\* the nodes of all elements, or the first error
parse_children(items) ==
    IF items = <<>> THEN [ok |-> TRUE, nodes |-> <<>>]
    ELSE LET head == parse_filter(Head(items))
         IN  IF ~ head.ok THEN head
             ELSE LET rest == parse_children(Tail(items))
                  IN  IF ~ rest.ok THEN rest
                      ELSE [ok |-> TRUE, nodes |-> <<head.node>> \o rest.nodes]

\* parsing.rs:503-657  the closure of the fold, for one member (the keys
\* `in` and `fragment` are not among the members drawn)
fold_step(acc, member) ==
    LET query_key == try_into(to_lowercase(member.name))
    IN  IF ~ query_key.ok THEN query_key
        ELSE IF query_key.key \in {"AND", "OR"}
        THEN IF member.value.j # "array" THEN acc
             ELSE LET values == parse_children(member.value.items)
                      values_node ==
                          [f |-> IF query_key.key = "AND" THEN "And" ELSE "Or",
                           children |-> values.nodes]
                  IN  IF ~ values.ok THEN values
                      ELSE accumulate(acc, values_node, values_node)
        ELSE LET leaf == parse_leaf(query_key.key, member.value)
             IN  IF ~ leaf.ok THEN leaf
                 ELSE accumulate(acc,
                                 [f |-> "And", children |-> <<leaf.node>>],
                                 leaf.node)

\* parsing.rs:503  o.keys().into_iter().fold(Ok(None), ..)
fold(members, acc) ==
    IF members = <<>> THEN acc
    ELSE fold(Tail(members), fold_step(acc, Head(members)))

\* parsing.rs:501-676
parse_filter(v) ==
    IF v.j # "object"
    THEN ParseError("filter", "Invalid value type, should be an object.")
    ELSE LET filter_folded == fold(v.members, [ok |-> TRUE, node |-> <<>>])
         IN  IF ~ filter_folded.ok THEN filter_folded
             ELSE IF filter_folded.node = <<>>
             THEN ParseError("filter", "Filter is empty.")
             ELSE [ok |-> TRUE, node |-> filter_folded.node[1]]

\* ---- the JSON values a request may carry as its filter ----
ValueOf(str) == JObject(<<[name |-> "value", value |-> JString(str)]>>)
LeafValues ==
    {ValueOf("a"),
     JObject(<<[name |-> "value", value |-> JNumber]>>),
     JObject(<<>>),
     JString("a")}
LeafMembers == [name : {"address", "key", "value", "KEY", "bogus"}, value : LeafValues]

\* the objects and / or arrays are made of
ItemObjects ==
    {JObject(<<>>),
     JObject(<<[name |-> "key", value |-> ValueOf("a")]>>),
     JObject(<<[name |-> "address", value |-> ValueOf("a")],
               [name |-> "value", value |-> ValueOf("a")]>>)}
NodeMembers ==
    [name : {"and", "or"},
     value : {JString("a")} \cup {JArray(items) : items \in SeqsUpTo(ItemObjects, MaxItems)}]

\* an object has no two members of one name
RawFilters ==
    {JString("a")}
        \cup {JObject(ms) : ms \in {m \in SeqsUpTo(LeafMembers \cup NodeMembers, MaxMembers) :
                                       \A i, j \in 1..Len(m) : i # j => m[i].name # m[j].name}}

\* a request's filter arrives
ReceiveFilter ==
    /\ raw_filter = <<>>
    /\ \E r \in RawFilters : raw_filter' = <<r>>
    /\ UNCHANGED <<text, escaped, filter, where_sql, sort, sort_sql, cpc, node,
                   daemon_vars, query_vars, codec_vars, search_vars>>

\* parsing.rs:501-676  it is parsed
ParseFilter ==
    /\ raw_filter # <<>>
    /\ node = <<>>
    /\ node' = <<parse_filter(raw_filter[1])>>
    /\ UNCHANGED <<text, escaped, filter, where_sql, sort, sort_sql, cpc,
                   raw_filter, daemon_vars, query_vars, codec_vars,
                   search_vars>>

ParseNext ==
    \/ ReceiveFilter
    \/ ParseFilter

ParseSpec == CompileInit /\ [][ParseNext]_vars

(***************************************************************************)
(* The search route: validation, then the store query                      *)
(***************************************************************************)
\* the hard ceiling of limit
MAX_LIMIT == 5000

\* the runtime type of a literal
TypeOfValue(v) ==
    CASE v.t = "StringVal" -> "String"
      [] v.t = "IntVal" -> "Integer"
      [] v.t = "BoolVal" -> "Bool"
      [] v.t = "BinaryVal" -> "Binary"

\* validation of a KeyFragment / ValueFragment filter
validate_fragment(v) ==
    IF v.position \notin 0..FRAGMENT_COLUMNS - 1 THEN "InvalidPosition"
    ELSE IF TypeOfValue(v.value) # v.fragment_type THEN "TypeMismatch"
    ELSE IF v.fragment_type = "String" /\ v.operation # "Eq"
         THEN "InvalidOperation"
    ELSE "Ok"

\* validation of a Value filter
validate_value(v) ==
    IF v.value.t # v.value_type THEN "TypeMismatch"
    ELSE IF v.value_type # "Integer" /\ v.operation # "Eq"
         THEN "InvalidOperation"
    ELSE "Ok"

\* validation of an In filter: the length of every row, then the type of
\* every value
validate_in(v) ==
    IF \E i \in 1..Len(v.values) : Len(v.values[i]) # Len(v.properties)
    THEN "InvalidRowLength"
    ELSE IF \E i \in 1..Len(v.values) : \E j \in 1..Len(v.properties) :
                TypeOfValue(v.values[i][j]) # PropertyType(v.properties[j])
         THEN "TypeMismatch"
    ELSE "Ok"

\* the first result of a list that is an error, Ok when none is
RECURSIVE first_error(_)
first_error(results) ==
    IF results = <<>> THEN "Ok"
    ELSE IF Head(results) # "Ok" THEN Head(results)
    ELSE first_error(Tail(results))

\* validation of a filter tree, depth first and left to right
RECURSIVE validate_filter(_)
validate_filter(v) ==
    CASE v.f \in {"And", "Or"} ->
            first_error([i \in 1..Len(v.children) |->
                            validate_filter(v.children[i])])
      [] v.f \in {"Fragment", "ValueFragment"} -> validate_fragment(v)
      [] v.f = "Value" -> validate_value(v)
      [] v.f = "In" -> validate_in(v)
      [] OTHER -> "Ok"

\* SearchRequest::is_valid
is_valid(r) ==
    IF r.limit > MAX_LIMIT THEN "InvalidLimit"
    ELSE IF r.filter = <<>> THEN "Ok"
    ELSE validate_filter(r.filter[1])

\* ---- the requests a client may send ----
Limits == {0, 100, MAX_LIMIT, MAX_LIMIT + 1}

SearchLiterals ==
    {[t |-> "StringVal", s |-> <<"a">>], [t |-> "IntVal", n |-> 5]}

\* fragment filters, the literal of either type whatever the declared one
SearchFragmentFilters ==
    [f : {"Fragment", "ValueFragment"}, position : {0, 10, 11},
     fragment_type : FragmentTypes, operation : Operations,
     value : SearchLiterals]

SearchValueDatas ==
    {[t |-> "String", s |-> <<"a">>], [t |-> "Integer", n |-> 5],
     [t |-> "Bool", b |-> TRUE], [t |-> "Binary", bytes |-> <<"a">>]}

\* Value filters, the value of any type whatever the declared one
SearchValueFilters ==
    [f : {"Value"}, value_type : ValueTypes, operation : Operations,
     value : SearchValueDatas]

\* In filters whose rows are as long as the property list, but for the
\* last one, which holds q values
SearchInFilters ==
    {[f |-> "In", properties |-> ps,
      values |-> [i \in 1..r |->
                    [j \in 1..(IF i = r THEN q ELSE Len(ps)) |->
                        IF j <= Len(ps) THEN InValue(ps[j], i + j)
                        ELSE [t |-> "StringVal", s |-> <<"a">>]]]]
        : ps \in SeqsUpTo(InItems, MaxInSize), r \in 0..MaxInSize,
          q \in 0..MaxInSize}

\* the leaves the And / Or nodes of a request are built over: a valid one
\* and one that is not
SearchChildLeaves ==
    {[f |-> "Key", value |-> <<"a">>],
     [f |-> "Fragment", position |-> 0, fragment_type |-> "String",
      operation |-> "Gt", value |-> [t |-> "StringVal", s |-> <<"a">>]]}

RECURSIVE SearchNodes(_)
SearchNodes(d) ==
    IF d = 1
    THEN [f : {"And", "Or"}, children : SeqsUpTo(SearchChildLeaves, MaxChildren)]
    ELSE SearchNodes(d - 1)
            \cup UNION {{[f |-> c, children |-> [ch EXCEPT ![i] = n]]
                            : c \in {"And", "Or"}, i \in 1..Len(ch),
                              n \in SearchNodes(d - 1)}
                          : ch \in SeqsUpTo(SearchChildLeaves, MaxChildren)}

SearchFilters(d) ==
    ChildLeaves \cup SearchFragmentFilters \cup SearchValueFilters
        \cup SearchInFilters \cup SearchNodes(d)

SearchRequests(d) ==
    [filter : Optional(SearchFilters(d)),
     sort : {<<>>, <<[item |-> "Base", direction |-> "Asc"]>>},
     limit : Limits, offset : {0}]

\* a route that hands every request on
rejected_never(result) == FALSE

\* mod.rs:102-105  the request is handed on when it is valid, and rejected
\* otherwise
rejected(result) == result # "Ok"

\* ---- the store query (data_entries.rs:110-145) ----
\* the first n elements, and all but the first n elements, of a sequence
Take(s, n) == SubSeq(s, 1, Min(n, Len(s)))
Skip(s, n) == SubSeq(s, Min(n, Len(s)) + 1, Len(s))

\* the orders a set of rows may be returned in
Perms(S) ==
    {p \in [1..Cardinality(S) -> S] :
        \A i, j \in 1..Cardinality(S) : i # j => p[i] # p[j]}

\* the row satisfies the WHERE condition the filter is rendered as
\* (sql.rs:185-189 `key = '..'`, 225-229 `address = '..'`, 67-97 AND / OR of
\* the children, an empty child list being `1=1`)
RECURSIVE Selected(_, _)
Selected(r, v) ==
    CASE v.f = "Key" -> r.key = v.value
      [] v.f = "Address" -> r.address = v.value
      [] v.f = "And" ->
            \A i \in 1..Len(v.children) : Selected(r, v.children[i])
      [] v.f = "Or" ->
            \/ v.children = <<>>
            \/ \E i \in 1..Len(v.children) : Selected(r, v.children[i])

\* data_entries.rs:82-97, 133-136  BASE_QUERY AND de.superseded_by = $1
\* {AND filter}, $1 bound to MAX_UID
Matching(table, f) ==
    {r \in table : /\ HasValue(r)
                   /\ r.superseded_by = MAX_UID
                   /\ f # <<>> => Selected(r, f[1])}

\* data_entries.rs:133-143  .. LIMIT {limit} OFFSET {offset}: the matching
\* rows in the order the store returns them (any order that is not fixed
\* by the sort list), without the first offset rows, at most limit of them
QueryResults(table, f, limit, offset) ==
    {Take(Skip(p, offset), limit) : p \in Perms(Matching(table, f))}

\* ---- the store and the requests of a paged search ----
\* keys and addresses are written as their bytes, as filters carry them
PageKey(i) == [j \in 1..i |-> "a"]

\* a current row per key, next to a superseded version of the first key and
\* the current row of a removed key
PageRow(i) ==
    [uid |-> i, address |-> <<"a">>, key |-> PageKey(i), value |-> <<"v1">>,
     superseded_by |-> MAX_UID]
PageStores ==
    {{PageRow(i) : i \in S}
        \cup {[uid |-> 0, address |-> <<"a">>, key |-> PageKey(1),
                value |-> <<"v2">>, superseded_by |-> 1],
               [uid |-> MaxPageRows + 1, address |-> <<"a">>,
                key |-> PageKey(MaxPageRows + 1), value |-> <<>>,
                superseded_by |-> MAX_UID]}
     : S \in SUBSET (1..MaxPageRows)}

PageFilters ==
    {<<>>,
     <<[f |-> "Key", value |-> PageKey(1)]>>,
     <<[f |-> "Or", children |-> <<[f |-> "Key", value |-> PageKey(1)],
                                  [f |-> "Key", value |-> PageKey(2)]>>]>>}

PageRequests ==
    [filter : PageFilters, sort : {<<>>}, limit : 0..MaxPageLimit,
     offset : 0..MaxPageOffset]

\* mod.rs:97-101  a paged search request is received and deserialized
ReceivePage ==
    /\ spc = "idle"
    /\ \E r \in PageRequests : req' = <<r>>
    /\ spc' = "received"
    /\ UNCHANGED <<validation, searched, found, page, daemon_vars,
                   query_vars, codec_vars, compile_vars>>

\* mod.rs:97-101  a search request is received and deserialized
ReceiveSearch ==
    /\ spc = "idle"
    /\ \E r \in SearchRequests(MaxDepth) : req' = <<r>>
    /\ spc' = "received"
    /\ UNCHANGED <<validation, searched, found, page, daemon_vars,
                   query_vars, codec_vars, compile_vars>>

\* mod.rs:102-105  the request is validated
IsValid ==
    /\ spc = "received"
    /\ validation' = <<is_valid(req[1])>>
    /\ spc' = IF rejected(validation'[1]) THEN "rejected" ELSE "valid"
    /\ UNCHANGED <<req, searched, found, page, daemon_vars, query_vars,
                   codec_vars, compile_vars>>

\* mod.rs:109-116, data_entries.rs:110-128  the store is queried for the
\* request: its filter and its sort list are compiled into the query text
SearchDataEntries ==
    /\ spc = "valid"
    /\ LET r == req[1]
           query_where_string ==
               IF r.filter = <<>> THEN <<>>
               ELSE LET w == SqlWhereFromRequestFilter(r.filter[1])
                    IN  IF Len(w) > 0 THEN <<"AND ">> \o w ELSE w
           query_sort_string ==
               LET o == SqlSortFromRequestSort(r.sort)
               IN  IF Len(o) > 0 THEN <<"ORDER BY ">> \o o ELSE o
       IN  searched' = Append(searched,
                              [where |-> query_where_string,
                               order |-> query_sort_string,
                               limit |-> r.limit + 1,
                               offset |-> r.offset])
    /\ found' \in QueryResults(de_versions, req[1].filter, req[1].limit + 1,
                                req[1].offset)
    /\ spc' = "searched"
    /\ UNCHANGED <<req, validation, page, daemon_vars, query_vars, codec_vars,
                   compile_vars>>

\* a response that reports a next page as soon as the page is full
has_next_page_when_full(data_entries_found, limit) ==
    Len(data_entries_found) >= limit

\* mod.rs:118  data_entries.len() > req.limit
has_next_page(data_entries_found, limit) == Len(data_entries_found) > limit

\* mod.rs:117-127  the response is built from the rows returned
Respond ==
    /\ spc = "searched"
    /\ page' = <<[entries |-> Take(found, req[1].limit),
                  has_next_page |-> has_next_page(found, req[1].limit)]>>
    /\ spc' = "responded"
    /\ UNCHANGED <<req, validation, searched, found, daemon_vars, query_vars,
                   codec_vars, compile_vars>>

SearchNext ==
    \/ ReceiveSearch
    \/ IsValid
    \/ SearchDataEntries
    \/ Respond

SearchInit ==
    /\ DaemonIdle
    /\ QueryIdle
    /\ de_versions = {}
    /\ history_keys = {}
    /\ CodecIdle
    /\ CompileIdle
    /\ SearchIdle

SearchSpec == SearchInit /\ [][SearchNext]_vars

PageNext ==
    \/ ReceivePage
    \/ IsValid
    \/ SearchDataEntries
    \/ Respond

PageInit ==
    /\ DaemonIdle
    /\ QueryIdle
    /\ de_versions \in PageStores
    /\ history_keys = {}
    /\ CodecIdle
    /\ CompileIdle
    /\ SearchIdle

PageSpec == PageInit /\ [][PageNext]_vars

\* the node, or a node below it, is n
RECURSIVE Contains(_, _)
Contains(v, n) ==
    \/ v = n
    \/ /\ v.f \in {"And", "Or"}
       /\ \E i \in 1..Len(v.children) : Contains(v.children[i], n)

\* the filter one member of a filter object stands for, <<>> when it stands
\* for none
MemberFilter(member) ==
    LET query_key == try_into(to_lowercase(member.name))
    IN  IF ~ query_key.ok THEN <<>>
        ELSE IF query_key.key \in {"AND", "OR"}
        THEN IF member.value.j = "array" /\ parse_children(member.value.items).ok
             THEN <<[f |-> IF query_key.key = "AND" THEN "And" ELSE "Or",
                     children |-> parse_children(member.value.items).nodes]>>
             ELSE <<>>
        ELSE IF parse_leaf(query_key.key, member.value).ok
             THEN <<parse_leaf(query_key.key, member.value).node>>
             ELSE <<>>

\* C30: parse_filter on an object with several recognised keys returns a
\* node that contains the parsed filter of every one of the keys.
C30_EveryKeyInParsedNode ==
    (node # <<>> /\ node[1].ok) =>
        \A i \in 1..Len(raw_filter[1].members) :
            MemberFilter(raw_filter[1].members[i]) # <<>> =>
                Contains(node[1].node, MemberFilter(raw_filter[1].members[i])[1])

\* C21: a search with limit L and offset O over M matching current rows
\* answers with min(L, max(M - O, 0)) entries, all of them matching current
\* rows, and has_next_page is true exactly when M - O > L.
C21_PageOfMatchingRows ==
    spc = "responded" =>
        LET L == req[1].limit
            O == req[1].offset
            matching == Matching(de_versions, req[1].filter)
            M == Cardinality(matching)
        IN  /\ Len(page[1].entries) = Min(L, Max(M - O, 0))
            /\ \A i \in 1..Len(page[1].entries) : page[1].entries[i] \in matching
            /\ page[1].has_next_page <=> (M - O > L)

\* a full page with more rows behind it has been answered
C21_Witness ==
    /\ spc = "responded"
    /\ req[1].filter # <<>>
    /\ req[1].offset = 0
    /\ req[1].limit = 1
    /\ Len(page[1].entries) = 1
    /\ page[1].has_next_page
    /\ Cardinality(Matching(de_versions, req[1].filter)) = 2
    /\ Cardinality(de_versions) > 4


\* a filter tree holds a node the validation is to refuse
RECURSIVE Refused(_)
Refused(v) ==
    CASE v.f \in {"And", "Or"} ->
            \E i \in 1..Len(v.children) : Refused(v.children[i])
      [] v.f \in {"Fragment", "ValueFragment"} ->
            \/ (v.fragment_type = "String") # (v.value.t = "StringVal")
            \/ v.fragment_type = "String" /\ v.operation # "Eq"
      [] v.f = "Value" -> v.value_type # "Integer" /\ v.operation # "Eq"
      [] v.f = "In" ->
            \E i \in 1..Len(v.values) : Len(v.values[i]) # Len(v.properties)
      [] OTHER -> FALSE

\* an Integer fragment or an Integer value, with a literal of its type
IntegerComparison(v) ==
    \/ /\ v.f \in {"Fragment", "ValueFragment"}
       /\ v.position \in 0..10
       /\ v.fragment_type = "Integer"
       /\ v.value.t = "IntVal"
    \/ /\ v.f = "Value"
       /\ v.value_type = "Integer"
       /\ v.value.t = "Integer"

\* C20: validation is run on every search request before the store is
\* queried; it returns an error for limit > 5000, for a fragment filter
\* whose literal type differs from its fragment_type, for a String fragment
\* with an operation other than Eq, for a Value filter of non-Integer type
\* with an operation other than Eq, and for an In row whose length differs
\* from the number of properties; it accepts limit = 5000 and Integer
\* fragments and Integer values with any of the five operations.  A
\* rejected request never reaches search_data_entries.
C20_ValidatedBeforeSearched ==
    /\ searched # <<>> => validation = <<"Ok">>
    /\ spc \in {"valid", "rejected", "searched"} => validation # <<>>
    /\ validation # <<>> =>
        LET r == req[1]
        IN  /\ r.limit > 5000 => validation[1] # "Ok"
            /\ (r.filter # <<>> /\ Refused(r.filter[1])) => validation[1] # "Ok"
            /\ (r.limit <= 5000 /\ r.filter = <<>>) => validation[1] = "Ok"
            /\ (r.limit <= 5000 /\ r.filter # <<>> /\ IntegerComparison(r.filter[1]))
                    => validation[1] = "Ok"
            /\ validation[1] # "Ok" => (spc = "rejected" /\ searched = <<>>)
            /\ spc = "searched" => Len(searched) = 1

C20_Witness ==
    /\ spc = "rejected"
    /\ req[1].limit = MAX_LIMIT
    /\ req[1].filter # <<>>
    /\ req[1].filter[1].f = "Fragment"
    /\ req[1].filter[1].fragment_type = "String"
    /\ req[1].filter[1].value.t = "StringVal"
    /\ req[1].filter[1].operation = "Gt"
    /\ validation = <<"InvalidOperation">>
    /\ searched = <<>>

====
